---- MODULE Spec2Model ----
(***************************************************************************)
(* The REST backend of the social-networking application (Express routes   *)
(* over a hosted relational store) as a state machine.  One action is one  *)
(* HTTP request handled from the first middleware to the response.         *)
(*                                                                         *)
(* Strings are sequences of one-character strings, so that toLowerCase,    *)
(* trim, length checks and character classes are computed, not assumed.    *)
(* Times are in hours.                                                     *)
(***************************************************************************)
EXTENDS Integers, Sequences, FiniteSets, TLC

VARIABLES
    users,              \* table users, in insertion order
    posts,              \* table posts, in insertion order
    nextPostId,         \* the store's id generator for posts
    likes,              \* table likes, in insertion order
    follows,            \* table follows, in insertion order
    reports,            \* table reports
    admin_actions,      \* table admin_actions (audit rows)
    moderation_actions, \* table moderation_actions (audit rows)
    uniqueConstraint,   \* whether the store's schema declares username/email unique
    now,                \* the server clock
    held,               \* the bearer token a client kept from its last auth response
    pc,                 \* "idle": no request in flight; "responded": req/resp are the last exchange
    req,                \* the request handled last (with req.user as the gate set it)
    resp,               \* its response
    before,             \* the tables and regLog as they were when that request arrived
    regLog,             \* the (username, email) strings of the registrations that succeeded
    prior,              \* history: the last like or follow that succeeded (its request and the
                        \* tables around it); of a page, the calls and gestures so far
    inflight,           \* registrations being handled concurrently, each at one of its awaits
    limiter,            \* the rate limiter's store and the clock it reads
    authSystem,         \* auth, the page's AuthSystem object: currentUser, token
    localStorage,       \* the browser's storage: social_currentUser, social_token
    feedManager,        \* the page's FeedManager object: posts, isLoading
    location,           \* window.location: the page shown, and the redirects that led to it
    awaiting,           \* the client's async calls suspended at an await
    dom                 \* the post form: postInput's value, postButton.disabled, and
                        \* whether FeedManager.setupEventListeners has run

tables == <<users, posts, nextPostId, likes, follows, reports,
            admin_actions, moderation_actions>>
browser == <<authSystem, localStorage, feedManager, location, awaiting, dom>>
vars == <<users, posts, nextPostId, likes, follows, reports, admin_actions,
          moderation_actions, uniqueConstraint, now, held, pc, req, resp, before, regLog,
          prior, inflight, limiter, authSystem, localStorage, feedManager, location, awaiting,
          dom>>

----------------------------------------------------------------------------
(* Bounds of the model *)

MaxUsers == 5
MaxPosts == 1
MaxTicks == 1
MaxAudit == 2
MaxModeration == 1
MaxAdvances == 2
MaxRejected == 1
MaxOther == 1
MaxLikes == 2
MaxFollows == 2

----------------------------------------------------------------------------
(* Strings *)

Null == <<>>

UPPER == <<"A","B","C","D","E","F","G","H","I","J","K","L","M",
           "N","O","P","Q","R","S","T","U","V","W","X","Y","Z">>
LOWER == <<"a","b","c","d","e","f","g","h","i","j","k","l","m",
           "n","o","p","q","r","s","t","u","v","w","x","y","z">>
DIGITS == <<"0","1","2","3","4","5","6","7","8","9">>

Range(s) == {s[i] : i \in DOMAIN s}

LowerChar(c) ==
    IF c \in Range(UPPER) THEN LOWER[CHOOSE i \in DOMAIN UPPER : UPPER[i] = c] ELSE c

\* String.prototype.toLowerCase
toLowerCase(s) == [i \in DOMAIN s |-> LowerChar(s[i])]

IsSpace(c) == c \in {" ", "\t", "\n"}

RECURSIVE TrimStart(_)
TrimStart(s) == IF s # <<>> /\ IsSpace(Head(s)) THEN TrimStart(Tail(s)) ELSE s

RECURSIVE TrimEnd(_)
TrimEnd(s) ==
    IF s # <<>> /\ IsSpace(s[Len(s)]) THEN TrimEnd(SubSeq(s, 1, Len(s) - 1)) ELSE s

\* String.prototype.trim
trim(s) == TrimEnd(TrimStart(s))

Repeat(c, n) == [i \in 1..n |-> c]


----------------------------------------------------------------------------
(* Inputs: the strings requests are built from *)

bob      == <<"b","o","b">>
Bob      == <<"B","o","b">>
amy      == <<"a","m","y">>
root     == <<"r","o","o","t">>
mod      == <<"m","o","d">>
boss     == <<"b","o","s","s">>
bobMail  == <<"b","@","x",".","i","o">>
BobMail  == <<"B","@","x",".","i","o">>
amyMail  == <<"a","@","x",".","i","o">>
rootMail == <<"r","@","x",".","i","o">>
modMail  == <<"m","@","x",".","i","o">>
bossMail == <<"s","@","x",".","i","o">>
goodPw   == <<"p","w","1","2","3","4">>
wrongPw  == <<"p","w","9","9","9","9">>

Usernames    == {bob, Bob, amy}
Emails       == {bobMail, BobMail, amyMail}
Passwords    == {goodPw}
DisplayNames == {<<"B">>}

----------------------------------------------------------------------------
(* Library calls *)

TokenTTL   == 168      \* expiresIn: '7d'
saltRounds == 12

JWT_SECRET == "process.env.JWT_SECRET"

\* bcrypt.hash(password, saltRounds)
bcryptHash(password, rounds) == [alg |-> "bcrypt", cost |-> rounds, of |-> password]

\* bcrypt.compare(password, hash)
bcryptCompare(password, hash) == hash.of = password

\* the HMAC of a payload under a secret
Signature(payload, secret) == [secret |-> secret, over |-> payload]

\* jwt.sign(payload, secret, { expiresIn: '7d' }) at time t
jwtSign(payload, secret, t) ==
    LET full == [id |-> payload.id, username |-> payload.username,
                 is_admin |-> payload.is_admin, is_moderator |-> payload.is_moderator,
                 iat |-> t, exp |-> t + TokenTTL]
    IN  [wellformed |-> TRUE, payload |-> full, sig |-> Signature(full, secret)]

\* jwt.verify that does not look at exp
jwtVerifyErrNoExp(token, secret, t) ==
    \/ ~token.wellformed
    \/ token.sig # Signature(token.payload, secret)

\* jwt.verify(token, secret, callback): TRUE when the callback gets err
jwtVerifyErr(token, secret, t) ==
    \/ ~token.wellformed
    \/ token.sig # Signature(token.payload, secret)
    \/ t >= token.payload.exp

----------------------------------------------------------------------------
(* express-validator chains *)

IsWordChar(c) == c \in Range(UPPER) \cup Range(LOWER) \cup Range(DIGITS) \cup {"_"}

\* body('username').isLength({ min: 3, max: 30 }).matches(/^[a-zA-Z0-9_]+$/)
ValidUsername(s) ==
    /\ Len(s) >= 3 /\ Len(s) <= 30
    /\ \A i \in DOMAIN s : IsWordChar(s[i])

\* body('email').isEmail(): local@domain with a dotted domain
ValidEmail(s) ==
    \E k \in DOMAIN s :
        /\ s[k] = "@"
        /\ k > 1 /\ k < Len(s)
        /\ \A i \in DOMAIN s : i # k =>
              (IsWordChar(s[i]) \/ s[i] \in {".", "-"}) /\ s[i] # "@"
        /\ \E d \in (k + 2)..(Len(s) - 1) : s[d] = "."
        /\ s[1] # "." /\ s[k - 1] # "." /\ s[k + 1] # "." /\ s[Len(s)] # "."

\* body('displayName').isLength({ min: 1, max: 50 })
ValidDisplayName(s) == Len(s) >= 1 /\ Len(s) <= 50

\* body('password').isLength({ min: 6 })
ValidPassword(s) == Len(s) >= 6

\* body(...).notEmpty()
notEmpty(s) == s # <<>>

----------------------------------------------------------------------------
(* Requests and responses *)

\* fault: the store call that fails while the request is handled, if any;
\* via: the client method that sent the request, if the model follows one;
\* ip: the client address, where the model follows the rate limiter
NoReq == [route |-> "none", header |-> <<>>, body |-> <<>>, params |-> <<>>,
          query |-> <<>>, user |-> <<>>, fault |-> "none", via |-> "none",
          ip |-> "none"]

NoResp == [status |-> 0, stage |-> "none", error |-> "", message |-> "",
           user |-> <<>>, token |-> <<>>, users |-> <<>>, posts |-> <<>>,
           pagination |-> <<>>, counts |-> <<>>, liked |-> <<>>, following |-> <<>>,
           reports |-> <<>>]

Request(route, header, body, params, query) ==
    [route |-> route, header |-> header, body |-> body, params |-> params,
     query |-> query, user |-> <<>>, fault |-> "none", via |-> "none", ip |-> "none"]

\* res.status(code).json({ error: message }) sent by the middleware or handler `stage`
ErrorResp(code, stage, message) ==
    [NoResp EXCEPT !.status = code, !.stage = stage, !.error = message]

\* handleValidationErrors: res.status(400).json({ errors: errors.array() })
ValidationResp == ErrorResp(400, "validation", "errors")

Without(row, col) == [c \in DOMAIN row \ {col} |-> row[c]]
Pick(row, cols)   == [c \in cols |-> row[c]]


----------------------------------------------------------------------------
(* The store *)

\* a users row as the store completes it (column defaults, generated id, created_at)
UserRow(id, display_name, username, email, password_hash, is_admin, is_moderator, t) ==
    [id |-> id, display_name |-> display_name, username |-> username, email |-> email,
     password_hash |-> password_hash,
     is_admin |-> is_admin, is_moderator |-> is_moderator,
     is_verified |-> FALSE, is_premium |-> FALSE,
     is_banned |-> FALSE, banned_until |-> Null,
     avatar_url |-> Null, banner_url |-> Null, bio |-> Null, website |-> Null,
     location |-> Null, created_at |-> t]

\* the staff accounts the store holds before the first request (role flags are
\* written in the store's console: no route sets them)
SeedUsers ==
    << UserRow(1, <<"R">>, root, rootMail, bcryptHash(goodPw, saltRounds), TRUE,  FALSE, 0),
       UserRow(2, <<"M">>, mod,  modMail,  bcryptHash(goodPw, saltRounds), FALSE, TRUE,  0),
       UserRow(3, <<"S">>, boss, bossMail, bcryptHash(goodPw, saltRounds), TRUE,  TRUE,  0) >>

\* the tables as a record, so that a handler's writes are an EXCEPT on it
DB ==
    [users |-> users, posts |-> posts, nextPostId |-> nextPostId, likes |-> likes,
     follows |-> follows, reports |-> reports, admin_actions |-> admin_actions,
     moderation_actions |-> moderation_actions]

\* the outcome of a request: the response, the tables after it, and req.user
Outcome(r, d, u) == [resp |-> r, db |-> d, user |-> u]

\* a middleware or handler that answers r and writes nothing
Answer(r, u) == Outcome(r, DB, u)

\* supabase.from('users').insert([row]).select().single(): the error the store
\* raises (a unique violation) or none
UserInsertError(row) ==
    uniqueConstraint /\ \E i \in DOMAIN users :
        users[i].username = row.username \/ users[i].email = row.email

RECURSIVE InsertByCreatedAt(_, _)
InsertByCreatedAt(row, sorted) ==
    IF sorted = <<>> THEN <<row>>
    ELSE IF row.created_at >= Head(sorted).created_at THEN <<row>> \o sorted
    ELSE <<Head(sorted)>> \o InsertByCreatedAt(row, Tail(sorted))

RECURSIVE NewestFirst(_)
\* .order('created_at', { ascending: false }); rows of one instant come latest-inserted first
NewestFirst(rows) ==
    IF rows = <<>> THEN <<>>
    ELSE InsertByCreatedAt(rows[Len(rows)], NewestFirst(SubSeq(rows, 1, Len(rows) - 1)))


----------------------------------------------------------------------------
(* The rate limiter: rateLimit({ windowMs, max }) with its default memory store.
   The store keeps one counter per client address and empties it when its window
   ends: on a timer that runs since construction, or, in later releases of the
   package, windowMs after the address's first counted request (perKey).
   Times are in minutes. *)

windowMinutes == 15     \* windowMs: 15 * 60 * 1000
max == 100

Addresses == {"a", "b"}

\* a limiter that lets one request too many pass
LimiterPassesOffByOne(hits) == hits <= max + 1

\* the request passes while the counter, this request included, does not exceed max
LimiterPasses(hits) == hits <= max

\* the store's increment for the address and the limiter's verdict
limiterHit(L, a) ==
    LET fresh == \/ L.clock >= L.start[a] + windowMinutes
                 \/ L.perKey /\ L.hits[a] = 0
        start == IF ~fresh THEN L.start[a]
                 ELSE IF L.perKey THEN L.clock
                 ELSE (L.clock \div windowMinutes) * windowMinutes
        hits  == IF fresh THEN 1 ELSE L.hits[a] + 1
    IN  [pass |-> LimiterPasses(hits),
         store |-> [L EXCEPT !.start[a] = start, !.hits[a] = hits]]

\* the record kept beside the store for the properties: per address, the times at
\* which requests passed in the last windowMinutes, each with how many passed then
Recent(log, clock) == SelectSeq(log, LAMBDA e : e.t > clock - windowMinutes)

Logged(log, clock) ==
    LET kept == Recent(log, clock)
    IN  IF kept # <<>> /\ kept[Len(kept)].t = clock
        THEN [kept EXCEPT ![Len(kept)].n = @ + 1]
        ELSE Append(kept, [t |-> clock, n |-> 1])

TooManyRequests == ErrorResp(429, "limiter", "Too many requests, please try again later.")

----------------------------------------------------------------------------
(* Middleware *)

\* a middleware's result: next() was called, or a response was sent
Pass(u)   == [next |-> TRUE,  resp |-> NoResp, user |-> u]
Reject(r) == [next |-> FALSE, resp |-> r,      user |-> <<>>]

\* authHeader && authHeader.split(' ')[1]; the header is given as its words
BearerToken(header) == IF Len(header) >= 2 THEN <<header[2]>> ELSE <<>>

\* the gate answering an invalid token as it answers a missing one
InvalidTokenStatus401 == 400 + 1

\* the status sent for a token jwt.verify refuses
InvalidTokenStatus == 403

authenticateToken(header) ==
    LET token == BearerToken(header)
    IN  IF token = <<>>
        THEN Reject(ErrorResp(401, "authenticateToken", "Access token required"))
        ELSE IF jwtVerifyErr(token[1], JWT_SECRET, now)
        THEN Reject(ErrorResp(InvalidTokenStatus, "authenticateToken", "Invalid token"))
        ELSE Pass(<<token[1].payload>>)

\* a moderator gate that lets every authenticated caller pass
requireModeratorAnyone(user) ==
    IF user = <<>>
    THEN Reject(ErrorResp(403, "requireModerator", "Moderator access required"))
    ELSE Pass(user)

\* an admin gate that takes the moderator flag for the admin flag
requireAdminAnyStaff(user) ==
    IF user = <<>> \/ (~user[1].is_admin /\ ~user[1].is_moderator)
    THEN Reject(ErrorResp(403, "requireAdmin", "Admin access required"))
    ELSE Pass(user)

\* an admin gate that reads the flag from the stored row instead of the token
requireAdminByRow(user) ==
    IF user = <<>> \/ ~(\E i \in DOMAIN users :
                           users[i].id = user[1].id /\ users[i].is_admin /\ ~users[i].is_banned)
    THEN Reject(ErrorResp(403, "requireAdmin", "Admin access required"))
    ELSE Pass(user)

requireAdmin(user) ==
    IF user = <<>> \/ ~user[1].is_admin
    THEN Reject(ErrorResp(403, "requireAdmin", "Admin access required"))
    ELSE Pass(user)

\* a moderator gate with || for &&: it asks for both flags
requireModeratorBoth(user) ==
    IF user = <<>> \/ (~user[1].is_admin \/ ~user[1].is_moderator)
    THEN Reject(ErrorResp(403, "requireModerator", "Moderator access required"))
    ELSE Pass(user)

requireModerator(user) ==
    IF user = <<>> \/ (~user[1].is_admin /\ ~user[1].is_moderator)
    THEN Reject(ErrorResp(403, "requireModerator", "Moderator access required"))
    ELSE Pass(user)

----------------------------------------------------------------------------
(* POST /api/auth/register *)

\* .or(`username.eq.${username},email.eq.${email}`)
RegisterExisting(username, email) ==
    SelectSeq(users, LAMBDA u : u.username = username \/ u.email = email)

\* an insert that makes the new account a moderator
RegisterInsertModerator(body) ==
    UserRow(Len(users) + 1, body.displayName, toLowerCase(body.username),
            toLowerCase(body.email), bcryptHash(body.password, saltRounds),
            FALSE, TRUE, now)

\* the row the handler inserts
RegisterInsert(body) ==
    UserRow(Len(users) + 1, body.displayName, toLowerCase(body.username),
            toLowerCase(body.email), bcryptHash(body.password, saltRounds),
            FALSE, FALSE, now)

\* claims signed with the two role flags swapped
TokenClaimsSwapped(user) ==
    [id |-> user.id, username |-> user.username,
     is_admin |-> user.is_moderator, is_moderator |-> user.is_admin]

\* the claims both auth routes sign
TokenClaims(user) ==
    [id |-> user.id, username |-> user.username,
     is_admin |-> user.is_admin, is_moderator |-> user.is_moderator]

\* const { password_hash, ...userWithoutPassword } = user
userWithoutPassword(user) == Without(user, "password_hash")

\* a handler that asks the store again right before it inserts
ExistingAtInsert(body, existingUser) == RegisterExisting(body.username, body.email)

\* the rows the handler decides on after its awaits: the pre-query's answer
ExistingUser(body, existingUser) == existingUser

\* the handler from the pre-query's answer on; the store may have changed since
registerFrom(body, answer) ==
    LET existingUser == ExistingUser(body, answer)
        existingUsername == \E i \in DOMAIN existingUser :
                                existingUser[i].username = body.username
        existingEmail == \E i \in DOMAIN existingUser :
                                existingUser[i].email = body.email
        user == RegisterInsert(body)
    IN  IF Len(existingUser) > 0 /\ existingUsername
        THEN Answer(ErrorResp(400, "handler", "Username already exists"), <<>>)
        ELSE IF Len(existingUser) > 0 /\ existingEmail
        THEN Answer(ErrorResp(400, "handler", "Email already exists"), <<>>)
        ELSE IF UserInsertError(user)
        THEN Answer(ErrorResp(500, "handler",
                              "duplicate key value violates unique constraint"), <<>>)
        ELSE Outcome([NoResp EXCEPT !.status = 200, !.stage = "handler",
                                    !.user = <<userWithoutPassword(user)>>,
                                    !.token = <<jwtSign(TokenClaims(user), JWT_SECRET, now)>>,
                                    !.message = "User created successfully"],
                     [DB EXCEPT !.users = Append(users, user)], <<>>)

register(r) ==
    LET body == r.body IN
    IF ~(/\ ValidDisplayName(body.displayName) /\ ValidUsername(body.username)
         /\ ValidEmail(body.email) /\ ValidPassword(body.password))
    THEN Answer(ValidationResp, <<>>)
    ELSE registerFrom(body, RegisterExisting(body.username, body.email))

----------------------------------------------------------------------------
(* POST /api/auth/login *)

\* .select('*').or(`username.eq.${identifier},email.eq.${identifier}`)
LoginMatches(identifier) ==
    SelectSeq(users, LAMBDA u : u.username = identifier \/ u.email = identifier)

\* if (error || !user): no row, or .single() found several
LoginNoAccount == ErrorResp(401, "handler", "Invalid credentials")

\* a wrong-password answer that tells the account exists
LoginBadPasswordTelling == ErrorResp(401, "handler", "Invalid password")

\* if (!validPassword)
LoginBadPassword == ErrorResp(401, "handler", "Invalid credentials")

login(r) ==
    LET body == r.body IN
    IF ~(notEmpty(body.identifier) /\ notEmpty(body.password))
    THEN Answer(ValidationResp, <<>>)
    ELSE
    LET found == LoginMatches(body.identifier)
    IN  \* .single() reports an error unless exactly one row matches
        IF Len(found) # 1
        THEN Answer(LoginNoAccount, <<>>)
        ELSE IF ~bcryptCompare(body.password, found[1].password_hash)
        THEN Answer(LoginBadPassword, <<>>)
        ELSE Answer([NoResp EXCEPT !.status = 200, !.stage = "handler",
                                   !.user = <<userWithoutPassword(found[1])>>,
                                   !.token = <<jwtSign(TokenClaims(found[1]), JWT_SECRET, now)>>,
                                   !.message = "Login successful"], <<>>)

----------------------------------------------------------------------------
(* GET /api/posts, POST /api/posts *)

PostLimit == 280

\* user:users(display_name, username, avatar_url, is_verified, is_premium)
PostAuthor(user_id) ==
    LET owner == SelectSeq(users, LAMBDA u : u.id = user_id)
    IN  IF owner = <<>> THEN <<>>
        ELSE <<Pick(owner[1], {"display_name", "username", "avatar_url",
                               "is_verified", "is_premium"})>>

\* likes:likes(count), then post.likes[0]?.count || 0
LikesCount(post_id) == Len(SelectSeq(likes, LAMBDA l : l.post_id = post_id))

\* the same count over a likes table as it was at another moment
LikesCountIn(table, post_id) == Len(SelectSeq(table, LAMBDA l : l.post_id = post_id))

getPosts(r) ==
    LET rows == NewestFirst(posts)
    IN  Answer([NoResp EXCEPT !.status = 200, !.stage = "handler",
                   !.posts = [i \in DOMAIN rows |->
                                 [id |-> rows[i].id, user_id |-> rows[i].user_id,
                                  content |-> rows[i].content,
                                  created_at |-> rows[i].created_at,
                                  user |-> PostAuthor(rows[i].user_id),
                                  likes_count |-> LikesCount(rows[i].id)]]], <<>>)

\* body('content').isLength({ min: 1, max: 280 })
ValidContent(content) == Len(content) >= 1 /\ Len(content) <= PostLimit

\* the owner taken from the request body
PostOwnerFromBody(r, user) == r.body.userId

\* const userId = req.user.id
PostOwner(r, user) == user[1].id

\* the row the handler inserts
PostInsert(r, user) ==
    [id |-> nextPostId, user_id |-> PostOwner(r, user), content |-> trim(r.body.content),
     created_at |-> now]

createPost(r) ==
    LET auth == authenticateToken(r.header) IN
    IF ~auth.next THEN Answer(auth.resp, <<>>)
    ELSE IF ~ValidContent(r.body.content) THEN Answer(ValidationResp, auth.user)
    ELSE LET post == PostInsert(r, auth.user)
         IN  Outcome([NoResp EXCEPT !.status = 200, !.stage = "handler",
                         !.posts = <<[id |-> post.id, user_id |-> post.user_id,
                                      content |-> post.content,
                                      created_at |-> post.created_at,
                                      user |-> PostAuthor(post.user_id)]>>],
                     [DB EXCEPT !.posts = Append(posts, post),
                                !.nextPostId = nextPostId + 1],
                     auth.user)

----------------------------------------------------------------------------
(* POST /api/posts/:id/like, DELETE /api/posts/:id/like *)

\* the error of .insert([{ user_id, post_id }]) when the schema declares the pair unique
LikeInsertError(row) == uniqueConstraint /\ \E i \in DOMAIN likes : likes[i] = row

like(r, fault) ==
    LET auth == authenticateToken(r.header) IN
    IF ~auth.next THEN Answer(auth.resp, <<>>)
    ELSE LET row == [user_id |-> auth.user[1].id, post_id |-> r.params.id]
         IN  IF fault = "insert" \/ LikeInsertError(row)
             THEN Answer(ErrorResp(500, "handler", "store error"), auth.user)
             ELSE Outcome([NoResp EXCEPT !.status = 200, !.stage = "handler",
                                         !.liked = <<TRUE>>],
                          [DB EXCEPT !.likes = Append(likes, row)], auth.user)

\* a delete that matches on the user alone
UnlikeMatchUserOnly(l, user_id, post_id) == l.user_id = user_id

\* a delete that matches on the post alone
UnlikeMatchPostOnly(l, user_id, post_id) == l.post_id = post_id

\* .match({ user_id: userId, post_id: postId })
UnlikeMatch(l, user_id, post_id) == l.user_id = user_id /\ l.post_id = post_id

unlike(r, fault) ==
    LET auth == authenticateToken(r.header) IN
    IF ~auth.next THEN Answer(auth.resp, <<>>)
    ELSE IF fault = "delete"
    THEN Answer(ErrorResp(500, "handler", "store error"), auth.user)
    ELSE Outcome([NoResp EXCEPT !.status = 200, !.stage = "handler", !.liked = <<FALSE>>],
                 [DB EXCEPT !.likes = SelectSeq(likes, LAMBDA l :
                        ~UnlikeMatch(l, auth.user[1].id, r.params.id))],
                 auth.user)

----------------------------------------------------------------------------
(* GET /api/users/:username *)

ProfileColumns ==
    {"id", "display_name", "username", "avatar_url", "banner_url", "bio", "website",
     "location", "is_verified", "is_premium", "created_at"}

getProfile(r) ==
    LET found == SelectSeq(users, LAMBDA u : u.username = r.params.username)
    IN  IF Len(found) # 1
        THEN Answer(ErrorResp(404, "handler", "User not found"), <<>>)
        ELSE LET user == Pick(found[1], ProfileColumns)
             IN  Answer([NoResp EXCEPT !.status = 200, !.stage = "handler",
                    !.user = <<user>>,
                    !.counts = <<[posts_count |->
                                     Len(SelectSeq(posts, LAMBDA q : q.user_id = user.id)),
                                  followers_count |->
                                     Len(SelectSeq(follows, LAMBDA f : f.following_id = user.id)),
                                  following_count |->
                                     Len(SelectSeq(follows, LAMBDA f : f.follower_id = user.id))]>>],
                    <<>>)


----------------------------------------------------------------------------
(* POST /api/users/:username/follow, DELETE /api/users/:username/follow *)

\* the profile read's two follow counts over a follows table as it was at another moment
FollowersCountIn(table, id) == Len(SelectSeq(table, LAMBDA f : f.following_id = id))
FollowingCountIn(table, id) == Len(SelectSeq(table, LAMBDA f : f.follower_id = id))

\* .from('users').select('id').eq('username', targetUsername).single()
FollowTarget(username) ==
    LET found == SelectSeq(users, LAMBDA u : u.username = username)
    IN  IF Len(found) = 1 THEN <<found[1].id>> ELSE <<>>

\* a follow row with the two ids in each other's column
FollowRowSwapped(followerId, targetId) ==
    [follower_id |-> targetId, following_id |-> followerId]

\* the row the handler inserts
FollowRow(followerId, targetId) ==
    [follower_id |-> followerId, following_id |-> targetId]

\* the error of the insert when the schema declares the pair unique
FollowInsertError(row) == uniqueConstraint /\ \E i \in DOMAIN follows : follows[i] = row

follow(r, fault) ==
    LET auth == authenticateToken(r.header) IN
    IF ~auth.next THEN Answer(auth.resp, <<>>)
    ELSE
    LET targetUser == FollowTarget(r.params.username) IN
    IF fault = "select" \/ targetUser = <<>>
    THEN Answer(ErrorResp(404, "handler", "User not found"), auth.user)
    ELSE LET row == FollowRow(auth.user[1].id, targetUser[1])
         IN  IF fault = "insert" \/ FollowInsertError(row)
             THEN Answer(ErrorResp(500, "handler", "store error"), auth.user)
             ELSE Outcome([NoResp EXCEPT !.status = 200, !.stage = "handler",
                                         !.following = <<TRUE>>],
                          [DB EXCEPT !.follows = Append(follows, row)], auth.user)

unfollow(r, fault) ==
    LET auth == authenticateToken(r.header) IN
    IF ~auth.next THEN Answer(auth.resp, <<>>)
    ELSE
    LET targetUser == FollowTarget(r.params.username) IN
    IF fault = "select" \/ targetUser = <<>>
    THEN Answer(ErrorResp(404, "handler", "User not found"), auth.user)
    ELSE IF fault = "delete"
    THEN Answer(ErrorResp(500, "handler", "store error"), auth.user)
    ELSE Outcome([NoResp EXCEPT !.status = 200, !.stage = "handler",
                                !.following = <<FALSE>>],
                 [DB EXCEPT !.follows = SelectSeq(follows, LAMBDA f :
                        f # FollowRow(auth.user[1].id, targetUser[1]))],
                 auth.user)

----------------------------------------------------------------------------
(* JavaScript number/string coercions used by GET /api/admin/users *)

DigitValue(c) == (CHOOSE i \in DOMAIN DIGITS : DIGITS[i] = c) - 1

RECURSIVE ToNumber(_)
\* Number("<digits>")
ToNumber(ds) ==
    IF ds = <<>> THEN 0
    ELSE 10 * ToNumber(SubSeq(ds, 1, Len(ds) - 1)) + DigitValue(ds[Len(ds)])

RECURSIVE ToDigits(_)
\* String(n) for n >= 0
ToDigits(n) == IF n < 10 THEN <<DIGITS[n + 1]>> ELSE ToDigits(n \div 10) \o <<DIGITS[(n % 10) + 1]>>

\* a query parameter: absent (the destructuring default, a number) or a string of digits
QueryValue(q, default) ==
    IF q = <<>> THEN [isString |-> FALSE, n |-> default, text |-> ToDigits(default)]
    ELSE [isString |-> TRUE, n |-> ToNumber(q), text |-> q]

\* a + b where a is a number: string concatenation when b is a string
JsPlus(a, b) == IF b.isString THEN ToNumber(ToDigits(a) \o b.text) ELSE a + b.n

CeilDiv(a, b) == (a + b - 1) \div b

Min(a, b) == IF a <= b THEN a ELSE b

RECURSIVE Contains(_, _)
\* whether part occurs in s
Contains(s, part) ==
    IF Len(part) > Len(s) THEN FALSE
    ELSE IF SubSeq(s, 1, Len(part)) = part THEN TRUE
    ELSE Contains(Tail(s), part)

\* column ILIKE %search%
ilike(col, search) == Contains(toLowerCase(col), toLowerCase(search))

----------------------------------------------------------------------------
(* Admin routes *)

DefaultPage  == 1
DefaultLimit == 50

\* .range(from, to) over rows: positions from..to, counted from 0
RangeOf(rows, from, to) ==
    IF from >= Len(rows) \/ to < from THEN <<>>
    ELSE SubSeq(rows, from + 1, Min(to + 1, Len(rows)))

adminUsers(r) ==
    LET auth == authenticateToken(r.header)
        role == requireAdmin(auth.user)
    IN
    IF ~auth.next THEN Answer(auth.resp, <<>>)
    ELSE IF ~role.next THEN Answer(role.resp, auth.user)
    ELSE
    LET page == QueryValue(r.query.page, DefaultPage)
        limit == QueryValue(r.query.limit, DefaultLimit)
        search == r.query.search
        offset == (page.n - 1) * limit.n
        to == JsPlus(offset, limit) - 1
        matching == IF search = <<>> THEN users
                    ELSE SelectSeq(users, LAMBDA u :
                            \/ ilike(u.username, search)
                            \/ ilike(u.display_name, search)
                            \/ ilike(u.email, search))
        count == Len(matching)
    IN  Answer([NoResp EXCEPT !.status = 200, !.stage = "handler",
                   !.users = RangeOf(NewestFirst(matching), offset, to),
                   !.pagination = <<[page |-> page.n, limit |-> limit.n, total |-> count,
                                     pages |-> CeilDiv(count, limit.n)]>>],
               auth.user)

\* .update({ is_banned: true, banned_until }).eq('id', userId)
BanUpdate(id, until) ==
    [i \in DOMAIN users |->
        IF users[i].id = id
        THEN [users[i] EXCEPT !.is_banned = TRUE, !.banned_until = <<until>>]
        ELSE users[i]]

\* .update({ is_banned: false, banned_until: null }).eq('id', userId)
UnbanUpdate(id) ==
    [i \in DOMAIN users |->
        IF users[i].id = id
        THEN [users[i] EXCEPT !.is_banned = FALSE, !.banned_until = Null]
        ELSE users[i]]

\* body('duration_hours').isInt({ min: 1 })
ValidDuration(d) == d >= 1

\* an expiry that takes the duration for days
BannedUntilDays(duration_hours) == now + duration_hours * 24

\* new Date(Date.now() + duration_hours * 3600000), in hours
BannedUntil(duration_hours) == now + duration_hours

\* a handler that throws when the audit insert reports an error
BanResponseChecked(fault) ==
    IF fault = "audit" THEN ErrorResp(500, "handler", "store error")
    ELSE [NoResp EXCEPT !.status = 200, !.stage = "handler",
                        !.message = "User banned successfully"]

\* res.json({ message: 'User banned successfully' }) after the awaited audit insert,
\* whose answer the handler does not read
BanResponse(fault) ==
    [NoResp EXCEPT !.status = 200, !.stage = "handler",
                   !.message = "User banned successfully"]

\* the audit rows are inserted without looking at the store's answer
AuditInsert(table, row, fault) == IF fault = "audit" THEN table ELSE Append(table, row)

ban(r, fault) ==
    LET auth == authenticateToken(r.header)
        role == requireAdmin(auth.user)
    IN
    IF ~auth.next THEN Answer(auth.resp, <<>>)
    ELSE IF ~role.next THEN Answer(role.resp, auth.user)
    ELSE IF ~(r.body.reason # "" /\ ValidDuration(r.body.duration_hours))
    THEN Answer(ValidationResp, auth.user)
    ELSE IF fault = "update"
    THEN Answer(ErrorResp(500, "handler", "store error"), auth.user)
    ELSE Outcome(BanResponse(fault),
                 [DB EXCEPT
                    !.users = BanUpdate(r.params.id, BannedUntil(r.body.duration_hours)),
                    !.admin_actions = AuditInsert(admin_actions,
                        [admin_id |-> auth.user[1].id, target_user_id |-> r.params.id,
                         action_type |-> "ban", reason |-> r.body.reason,
                         duration_hours |-> <<r.body.duration_hours>>], fault)],
                 auth.user)

unban(r, fault) ==
    LET auth == authenticateToken(r.header)
        role == requireAdmin(auth.user)
    IN
    IF ~auth.next THEN Answer(auth.resp, <<>>)
    ELSE IF ~role.next THEN Answer(role.resp, auth.user)
    ELSE IF fault = "update"
    THEN Answer(ErrorResp(500, "handler", "store error"), auth.user)
    ELSE Outcome([NoResp EXCEPT !.status = 200, !.stage = "handler",
                                !.message = "User unbanned successfully"],
                 [DB EXCEPT
                    !.users = UnbanUpdate(r.params.id),
                    !.admin_actions = AuditInsert(admin_actions,
                        [admin_id |-> auth.user[1].id, target_user_id |-> r.params.id,
                         action_type |-> "unban", reason |-> "Manual unban by admin",
                         duration_hours |-> Null], fault)],
                 auth.user)

DefaultReason == "Violation of community guidelines"

deletePost(r, fault) ==
    LET auth == authenticateToken(r.header)
        role == requireModerator(auth.user)
    IN
    IF ~auth.next THEN Answer(auth.resp, <<>>)
    ELSE IF ~role.next THEN Answer(role.resp, auth.user)
    ELSE IF fault = "update"
    THEN Answer(ErrorResp(500, "handler", "store error"), auth.user)
    ELSE Outcome([NoResp EXCEPT !.status = 200, !.stage = "handler",
                                !.message = "Post deleted successfully"],
                 [DB EXCEPT
                    !.posts = SelectSeq(posts, LAMBDA q : q.id # r.params.id),
                    !.moderation_actions = AuditInsert(moderation_actions,
                        [moderator_id |-> auth.user[1].id, target_post_id |-> r.params.id,
                         action_type |-> "delete_post",
                         reason |-> IF r.body.reason = "" THEN DefaultReason
                                    ELSE r.body.reason], fault)],
                 auth.user)

\* active_today: Math.floor(Math.random() * 100) + 50, given as `random` in 0..99
analytics(r, random) ==
    LET auth == authenticateToken(r.header)
        role == requireAdmin(auth.user)
    IN
    IF ~auth.next THEN Answer(auth.resp, <<>>)
    ELSE IF ~role.next THEN Answer(role.resp, auth.user)
    ELSE Answer([NoResp EXCEPT !.status = 200, !.stage = "handler",
                    !.counts = <<[user_growth |-> Len(users), total_posts |-> Len(posts),
                                  active_today |-> random + 50]>>],
                auth.user)


----------------------------------------------------------------------------
(* Moderation routes *)

\* a reports row as the store holds it before anyone resolved it
ReportRow(id, reporter_id, reported_user_id, reported_post_id, t) ==
    [id |-> id, reporter_id |-> reporter_id, reported_user_id |-> reported_user_id,
     reported_post_id |-> reported_post_id, status |-> "pending",
     resolved_by |-> Null, resolved_at |-> Null, resolution_notes |-> Null,
     created_at |-> t]

\* reporter:users!reporter_id(display_name, username) and the like
ReportUser(id) ==
    LET found == SelectSeq(users, LAMBDA u : u.id = id)
    IN  IF found = <<>> THEN <<>> ELSE <<Pick(found[1], {"display_name", "username"})>>

\* reported_post:posts(content, user_id)
ReportPost(id) ==
    LET found == SelectSeq(posts, LAMBDA q : q.id = id)
    IN  IF found = <<>> THEN <<>> ELSE <<Pick(found[1], {"content", "user_id"})>>

DefaultStatus == "pending"

getReports(r) ==
    LET auth == authenticateToken(r.header)
        role == requireModerator(auth.user)
    IN
    IF ~auth.next THEN Answer(auth.resp, <<>>)
    ELSE IF ~role.next THEN Answer(role.resp, auth.user)
    ELSE
    LET status == IF r.query.status = "" THEN DefaultStatus ELSE r.query.status
        rows == NewestFirst(SelectSeq(reports, LAMBDA x : x.status = status))
    IN  Answer([NoResp EXCEPT !.status = 200, !.stage = "handler",
                   !.reports = [i \in DOMAIN rows |->
                                   [row |-> rows[i],
                                    reporter |-> ReportUser(rows[i].reporter_id),
                                    reported_user |-> ReportUser(rows[i].reported_user_id),
                                    reported_post |-> ReportPost(rows[i].reported_post_id)]]],
               auth.user)

\* body('action').isIn(['dismiss', 'warn', 'ban', 'delete'])
ValidAction(action) == action \in {"dismiss", "warn", "ban", "delete"}

\* an update without its .eq('id', reportId) filter
ResolveUpdateAll(id, moderatorId, notes) ==
    [i \in DOMAIN reports |->
        [reports[i] EXCEPT !.status = "resolved",
                           !.resolved_by = <<moderatorId>>,
                           !.resolved_at = <<now>>,
                           !.resolution_notes = IF notes = <<>> THEN @ ELSE notes]]

\* .update({ status: 'resolved', resolved_by, resolved_at, resolution_notes: notes })
\* .eq('id', reportId); notes left out of the body is undefined and is not sent
ResolveUpdate(id, moderatorId, notes) ==
    [i \in DOMAIN reports |->
        IF reports[i].id = id
        THEN [reports[i] EXCEPT !.status = "resolved",
                                !.resolved_by = <<moderatorId>>,
                                !.resolved_at = <<now>>,
                                !.resolution_notes =
                                    IF notes = <<>> THEN @ ELSE notes]
        ELSE reports[i]]

resolve(r, fault) ==
    LET auth == authenticateToken(r.header)
        role == requireModerator(auth.user)
    IN
    IF ~auth.next THEN Answer(auth.resp, <<>>)
    ELSE IF ~role.next THEN Answer(role.resp, auth.user)
    ELSE IF ~ValidAction(r.body.action) THEN Answer(ValidationResp, auth.user)
    ELSE IF fault = "update"
    THEN Answer(ErrorResp(500, "handler", "store error"), auth.user)
    ELSE Outcome([NoResp EXCEPT !.status = 200, !.stage = "handler",
                                !.message = "Report resolved successfully"],
                 [DB EXCEPT !.reports = ResolveUpdate(r.params.id, auth.user[1].id,
                                                      r.body.notes)],
                 auth.user)

----------------------------------------------------------------------------
(* The state machine *)

TypeOK ==
    /\ Len(users) <= MaxUsers
    /\ Len(posts) <= MaxPosts
    /\ nextPostId <= MaxPosts + 1
    /\ Len(admin_actions) <= MaxAudit
    /\ Len(moderation_actions) <= MaxModeration
    /\ Len(likes) <= MaxLikes
    /\ Len(follows) <= MaxFollows
    /\ uniqueConstraint \in BOOLEAN
    /\ now \in 0..(MaxTicks * TokenTTL)
    /\ pc \in {"idle", "responded"}
    /\ Len(held) <= 1
    /\ pc = "idle" => req = NoReq /\ resp = NoResp
    /\ pc = "responded" => resp.status \in {200, 400, 401, 403, 404, 429, 500}

\* the value of a JavaScript variable nothing was assigned to
undefined == <<[undefined |-> TRUE]>>

\* window.location and what led to it: the page shown, the page that was opened,
\* the redirects from the one to the other, the scripts the page loads, and
\* whether these have run
Shown(page) ==
    [pathname |-> page, opened |-> page, hops |-> 0, scripts |-> {}, ready |-> TRUE]

\* a browser with empty storage, before a page's scripts have run: the objects as
\* their constructors leave them (AuthSystem reads the empty storage)
Unopened ==
    /\ authSystem = [currentUser |-> Null, token |-> Null]
    /\ localStorage = [social_currentUser |-> Null, social_token |-> Null]
    /\ feedManager = [posts |-> <<>>, isLoading |-> FALSE, currentFeed |-> "for-you"]
    /\ location = Shown("about:blank")
    /\ awaiting = <<>>
    /\ dom = [postInput |-> <<>>, postButton |-> [disabled |-> TRUE], listeners |-> FALSE]

\* no like or follow yet, no registration in flight, the limiter's store empty,
\* no page open
Quiet ==
    /\ prior = <<>>
    /\ inflight = <<>>
    /\ limiter = <<>>
    /\ Unopened

\* the store holds the staff accounts and nothing else
Init ==
    /\ users = SeedUsers
    /\ posts = <<>>
    /\ nextPostId = 1
    /\ likes = <<>>
    /\ follows = <<>>
    /\ reports = <<>>
    /\ admin_actions = <<>>
    /\ moderation_actions = <<>>
    /\ uniqueConstraint \in BOOLEAN
    /\ now = 0
    /\ held = <<>>
    /\ pc = "idle"
    /\ req = NoReq
    /\ resp = NoResp
    /\ before = <<>>
    /\ regLog = {}
    /\ Quiet

\* the member account a registration of bob at time 0 leaves
Member == UserRow(4, <<"B">>, bob, bobMail, bcryptHash(goodPw, saltRounds), FALSE, FALSE, 0)

\* the store after bob registered
InitMember ==
    /\ users = Append(SeedUsers, Member)
    /\ posts = <<>>
    /\ nextPostId = 1
    /\ likes = <<>>
    /\ follows = <<>>
    /\ reports = <<>>
    /\ admin_actions = <<>>
    /\ moderation_actions = <<>>
    /\ uniqueConstraint = TRUE
    /\ now = 0
    /\ held = <<>>
    /\ pc = "idle"
    /\ req = NoReq
    /\ resp = NoResp
    /\ before = <<>>
    /\ regLog = {[username |-> bob, email |-> bobMail]}
    /\ Quiet

\* the store after bob registered and posted once
InitPosted ==
    /\ users = Append(SeedUsers, Member)
    /\ posts = <<[id |-> 1, user_id |-> 4, content |-> <<"h","i">>, created_at |-> 0]>>
    /\ nextPostId = 2
    /\ likes = <<>>
    /\ follows = <<>>
    /\ reports = <<>>
    /\ admin_actions = <<>>
    /\ moderation_actions = <<>>
    /\ uniqueConstraint = TRUE
    /\ now = 0
    /\ held = <<>>
    /\ pc = "idle"
    /\ req = NoReq
    /\ resp = NoResp
    /\ before = <<>>
    /\ regLog = {[username |-> bob, email |-> bobMail]}
    /\ Quiet

\* the tables and the registrations so far, kept while a response is read
Snapshot == [db |-> DB, regLog |-> regLog]

\* the server takes request r and answers it with outcome o
Respond(r, o) ==
    /\ pc = "idle"
    /\ Len(o.db.users) <= MaxUsers
    /\ o.db.nextPostId <= MaxPosts + 1
    /\ Len(o.db.admin_actions) <= MaxAudit
    /\ Len(o.db.moderation_actions) <= MaxModeration
    /\ Len(o.db.likes) <= MaxLikes
    /\ Len(o.db.follows) <= MaxFollows
    /\ pc' = "responded"
    /\ req' = [r EXCEPT !.user = o.user]
    /\ resp' = o.resp
    /\ before' = Snapshot
    /\ users' = o.db.users
    /\ posts' = o.db.posts
    /\ nextPostId' = o.db.nextPostId
    /\ likes' = o.db.likes
    /\ follows' = o.db.follows
    /\ reports' = o.db.reports
    /\ admin_actions' = o.db.admin_actions
    /\ moderation_actions' = o.db.moderation_actions
    /\ UNCHANGED <<uniqueConstraint, now, held>>

\* a request handled alone, its passage through the limiter left aside
\* (SpecLimiter follows the limiter)
Serve(r, o) == Respond(r, o) /\ UNCHANGED <<inflight, limiter, browser>>

\* the tokens a caller can put in the Authorization header: the one it holds, that
\* one with its role claims edited, one signed with another secret, and a damaged one
StaffClaims == [id |-> 1, username |-> root, is_admin |-> TRUE, is_moderator |-> TRUE]

ForgedToken == jwtSign(StaffClaims, "attacker secret", now)

MalformedToken == [jwtSign(StaffClaims, JWT_SECRET, now) EXCEPT !.wellformed = FALSE]

Presentable ==
    Range(held)
    \cup {[t EXCEPT !.payload.is_admin = TRUE, !.payload.is_moderator = TRUE] : t \in Range(held)}
    \cup {ForgedToken, MalformedToken}

Headers == {<<>>} \cup {<<"Bearer", t>> : t \in Presentable}

Faults == {"none", "update", "audit"}

Register ==
    \E dn \in DisplayNames, un \in Usernames \cup {<<"b","o">>},
       em \in Emails, pw \in Passwords :
        LET r == Request("POST /api/auth/register", <<>>,
                         [displayName |-> dn, username |-> un, email |-> em, password |-> pw],
                         <<>>, <<>>)
            o == register(r)
        IN  /\ Serve(r, o)
            /\ regLog' = IF o.resp.status = 200
                         THEN regLog \cup {[username |-> un, email |-> em]}
                         ELSE regLog
            /\ UNCHANGED prior

LoginIdentifiers == Usernames \cup Emails \cup {root, mod, boss, <<>>}

\* a login with an identifier and a password out of the given sets
LoginWith(identifiers, passwords) ==
    \E id \in identifiers, pw \in passwords :
        LET r == Request("POST /api/auth/login", <<>>,
                         [identifier |-> id, password |-> pw], <<>>, <<>>)
        IN  Serve(r, login(r)) /\ UNCHANGED <<regLog, prior>>

Login == LoginWith(LoginIdentifiers, {goodPw, wrongPw})

\* the member or the admin logs in
LoginPair == LoginWith({bob, root}, {goodPw})

\* the member or one of the staff logs in
LoginQuad == LoginWith({bob, mod, root, boss}, {goodPw})

\* the member, the moderator or the admin logs in
LoginTrio == LoginWith({bob, mod, root}, {goodPw})

GetPosts ==
    LET r == Request("GET /api/posts", <<>>, <<>>, <<>>, <<>>)
    IN  Serve(r, getPosts(r)) /\ UNCHANGED <<regLog, prior>>

Contents ==
    { <<>>, <<" ">>, <<" ", "x">>, Repeat("x", PostLimit), Repeat("x", PostLimit + 1),
      <<" ">> \o Repeat("x", PostLimit) }

CreatePost ==
    \E h \in Headers, c \in Contents, uid \in {1, 4} :
        LET r == Request("POST /api/posts", h, [userId |-> uid, content |-> c], <<>>, <<>>)
        IN  Serve(r, createPost(r)) /\ UNCHANGED <<regLog, prior>>

GetProfile ==
    \E un \in {bob, Bob, amy} :
        LET r == Request("GET /api/users/:username", <<>>, <<>>, [username |-> un], <<>>)
        IN  Serve(r, getProfile(r)) /\ UNCHANGED <<regLog, prior>>

AdminUsers ==
    \E h \in Headers, pl \in {<<<<>>, <<>>>>, <<<<"1">>, <<"2">>>>, <<<<"2">>, <<"2">>>>,
                                 <<<<"2">>, <<"1">>>>},
       q \in {<<>>, <<"B","O">>} :
        LET r == Request("GET /api/admin/users", h, <<>>, <<>>,
                         [page |-> pl[1], limit |-> pl[2], search |-> q])
        IN  Serve(r, adminUsers(r)) /\ UNCHANGED <<regLog, prior>>

Ban ==
    \E h \in Headers, id \in {4, 9}, d \in {0, 24}, f \in Faults :
        LET r == [Request("POST /api/admin/users/:id/ban", h,
                          [reason |-> "spam", duration_hours |-> d], [id |-> id], <<>>)
                     EXCEPT !.fault = f]
        IN  Serve(r, ban(r, f)) /\ UNCHANGED <<regLog, prior>>

Unban ==
    \E h \in Headers, id \in {4, 9}, f \in Faults :
        LET r == [Request("POST /api/admin/users/:id/unban", h, <<>>, [id |-> id], <<>>)
                     EXCEPT !.fault = f]
        IN  Serve(r, unban(r, f)) /\ UNCHANGED <<regLog, prior>>

Analytics ==
    \E h \in Headers, random \in {0, 99} :
        LET r == Request("GET /api/admin/analytics", h, <<>>, <<>>, [period |-> "7d"])
        IN  Serve(r, analytics(r, random)) /\ UNCHANGED <<regLog, prior>>

DeletePost ==
    \E h \in Headers, id \in {1, 9}, reason \in {"", "spam"}, f \in Faults :
        LET r == [Request("DELETE /api/admin/posts/:id", h, [reason |-> reason],
                          [id |-> id], <<>>) EXCEPT !.fault = f]
        IN  Serve(r, deletePost(r, f)) /\ UNCHANGED <<regLog, prior>>

\* a like or follow that succeeded, with the tables before and after it
Exchange(r, o) == <<[req |-> [r EXCEPT !.user = o.user], before |-> DB, after |-> o.db]>>

Like ==
    \E h \in Headers, id \in {1, 9}, f \in {"none", "insert"} :
        LET r == [Request("POST /api/posts/:id/like", h, <<>>, [id |-> id], <<>>)
                     EXCEPT !.fault = f]
            o == like(r, f)
        IN  /\ Serve(r, o)
            /\ prior' = IF o.resp.status = 200 THEN Exchange(r, o) ELSE prior
            /\ UNCHANGED regLog

Unlike ==
    \E h \in Headers, id \in {1, 9}, f \in {"none", "delete"} :
        LET r == [Request("DELETE /api/posts/:id/like", h, <<>>, [id |-> id], <<>>)
                     EXCEPT !.fault = f]
        IN  Serve(r, unlike(r, f)) /\ UNCHANGED <<regLog, prior>>

Follow ==
    \E h \in Headers, un \in {bob, Bob, root}, f \in {"none", "select", "insert"} :
        LET r == [Request("POST /api/users/:username/follow", h, <<>>,
                          [username |-> un], <<>>) EXCEPT !.fault = f]
            o == follow(r, f)
        IN  /\ Serve(r, o)
            /\ prior' = IF o.resp.status = 200 THEN Exchange(r, o) ELSE prior
            /\ UNCHANGED regLog

Unfollow ==
    \E h \in Headers, un \in {bob, Bob, root}, f \in {"none", "select", "delete"} :
        LET r == [Request("DELETE /api/users/:username/follow", h, <<>>,
                          [username |-> un], <<>>) EXCEPT !.fault = f]
        IN  Serve(r, unfollow(r, f)) /\ UNCHANGED <<regLog, prior>>

GetReports ==
    \E h \in Headers, status \in {"", "resolved"} :
        LET r == Request("GET /api/moderation/reports", h, <<>>, <<>>, [status |-> status])
        IN  Serve(r, getReports(r)) /\ UNCHANGED <<regLog, prior>>

Resolve ==
    \E h \in Headers, id \in {1, 2, 9}, action \in {"dismiss", "ban", "delete", "reopen"},
       notes \in {<<>>, <<"ok">>}, f \in {"none", "update"} :
        LET r == [Request("POST /api/moderation/reports/:id/resolve", h,
                          [action |-> action, notes |-> notes], [id |-> id], <<>>)
                     EXCEPT !.fault = f]
        IN  Serve(r, resolve(r, f)) /\ UNCHANGED <<regLog, prior>>

\* a request from address a meets the limiter and, if it passes, the feed route
Limited ==
    \E a \in Addresses :
        LET r == [Request("GET /api/posts", <<>>, <<>>, <<>>, <<>>) EXCEPT !.ip = a]
            hit == limiterHit(limiter, a)
            o == IF hit.pass THEN getPosts(r) ELSE Answer(TooManyRequests, <<>>)
        IN  /\ hit.store.hits[a] <= max + MaxRejected
            /\ a = "b" => hit.store.hits[a] <= MaxOther
            /\ Respond(r, o)
            /\ limiter' = [hit.store EXCEPT !.passed[a] =
                              IF hit.pass THEN Logged(@, limiter.clock)
                              ELSE Recent(@, limiter.clock)]
            /\ UNCHANGED <<regLog, prior, inflight, browser>>

ClockStep == 8

\* time passes at the limiter
Advance ==
    /\ pc = "idle"
    /\ limiter.clock < MaxAdvances * ClockStep
    /\ limiter' = [limiter EXCEPT
                      !.clock = @ + ClockStep,
                      !.passed = [a \in Addresses |->
                                    Recent(limiter.passed[a], limiter.clock + ClockStep)]]
    /\ UNCHANGED <<tables, uniqueConstraint, now, held, pc, req, resp, before, regLog,
                   prior, inflight, browser>>

\* getCurrentUser(): the user object stored beside the token, as far as the
\* client's requests use it
currentUser == IF held = <<>> THEN <<>> ELSE <<[id |-> held[1].payload.id]>>

\* the Authorization words among the headers FeedManager.createPost sends:
\* headers: { 'Content-Type': 'application/json' }
FeedPostHeaders == <<>>

\* FeedManager.createPost(content) as far as its request: nothing is sent without a
\* current user, for blank content or for content longer than 280
FeedCreatePost ==
    \E content \in Contents :
        /\ currentUser # <<>>
        /\ Len(trim(content)) # 0
        /\ ~(Len(content) > 280)
        /\ LET r == [Request("POST /api/posts", FeedPostHeaders,
                             [userId |-> currentUser[1].id, content |-> trim(content)],
                             <<>>, <<>>)
                        EXCEPT !.via = "FeedManager.createPost"]
           IN  Serve(r, createPost(r)) /\ UNCHANGED <<regLog, prior>>

\* the handlers that run concurrently, and one that has no request
Procs == {1, 2}

NoProc == [at |-> "none", body |-> <<>>, existingUser |-> <<>>, resp |-> NoResp]

\* a valid registration reaches handler p
RaceArrive(p) ==
    /\ inflight[p].at = "none"
    /\ \E un \in {bob, amy}, em \in {bobMail, amyMail} :
          inflight' = [inflight EXCEPT ![p] =
                          [NoProc EXCEPT !.at = "query",
                                         !.body = [displayName |-> <<"B">>, username |-> un,
                                                   email |-> em, password |-> goodPw]]]
    /\ UNCHANGED <<tables, uniqueConstraint, now, held, pc, req, resp, before, regLog,
                   prior, limiter, browser>>

\* handler p's pre-query is answered
RaceQuery(p) ==
    /\ inflight[p].at = "query"
    /\ inflight' = [inflight EXCEPT
                       ![p].at = "insert",
                       ![p].existingUser =
                           RegisterExisting(inflight[p].body.username, inflight[p].body.email)]
    /\ UNCHANGED <<tables, uniqueConstraint, now, held, pc, req, resp, before, regLog,
                   prior, limiter, browser>>

\* handler p goes on from the answer: it refuses, or hashes, inserts and responds
RaceInsert(p) ==
    /\ inflight[p].at = "insert"
    /\ LET o == registerFrom(inflight[p].body, inflight[p].existingUser)
       IN  /\ Len(o.db.users) <= MaxUsers
           /\ users' = o.db.users
           /\ inflight' = [inflight EXCEPT ![p].at = "done", ![p].resp = o.resp]
    /\ UNCHANGED <<posts, nextPostId, likes, follows, reports, admin_actions,
                   moderation_actions, uniqueConstraint, now, held, pc, req, resp,
                   before, regLog, prior, limiter, browser>>

\* the client reads the response; it keeps the token of an auth response
\* (AuthSystem.setCurrentUser) or leaves its storage as it is
ClientReceive ==
    /\ pc = "responded"
    /\ pc' = "idle"
    /\ req' = NoReq
    /\ resp' = NoResp
    /\ before' = <<>>
    /\ \/ held' = held
       \/ resp.token # <<>> /\ held' = resp.token
    /\ UNCHANGED <<tables, uniqueConstraint, now, regLog, prior, inflight, limiter, browser>>

\* time passes between requests: one token lifetime
Tick ==
    /\ pc = "idle"
    /\ now < MaxTicks * TokenTTL
    /\ now' = now + TokenTTL
    /\ UNCHANGED <<tables, uniqueConstraint, held, pc, req, resp, before, regLog,
                   prior, inflight, limiter, browser>>

\* half a token lifetime passes between requests
Elapse ==
    /\ pc = "idle"
    /\ now < MaxTicks * TokenTTL
    /\ now' = now + TokenTTL \div 2
    /\ UNCHANGED <<tables, uniqueConstraint, held, pc, req, resp, before, regLog,
                   prior, inflight, limiter, browser>>

\* the users table is edited in the store's console between requests: the row of
\* an account that can log in here is banned and stripped of its role flags, or
\* is made admin
StoreEdit ==
    /\ pc = "idle"
    /\ \E i \in DOMAIN users, edit \in {"revoke", "promote"} :
          /\ users[i].username \in {bob, mod, root}
          /\ users' = [users EXCEPT
                         ![i].is_banned = IF edit = "revoke" THEN TRUE ELSE @,
                         ![i].is_admin = edit = "promote",
                         ![i].is_moderator = IF edit = "revoke" THEN FALSE ELSE @]
    /\ UNCHANGED <<posts, nextPostId, likes, follows, reports, admin_actions,
                   moderation_actions, uniqueConstraint, now, held, pc, req, resp,
                   before, regLog, prior, inflight, limiter, browser>>

\* every route, sequentially
Next ==
    \/ Register
    \/ Login
    \/ GetPosts
    \/ GetProfile
    \/ CreatePost
    \/ AdminUsers
    \/ Ban
    \/ Unban
    \/ Analytics
    \/ DeletePost
    \/ Like
    \/ Unlike
    \/ Follow
    \/ Unfollow
    \/ GetReports
    \/ Resolve
    \/ FeedCreatePost
    \/ ClientReceive
    \/ Tick

Spec == Init /\ [][Next]_vars

\* the authentication routes
NextAuth ==
    \/ Register
    \/ Login
    \/ GetProfile
    \/ ClientReceive
    \/ Tick

SpecAuth == Init /\ [][NextAuth]_vars

\* the content routes, for the member and the staff
NextContent ==
    \/ Login
    \/ CreatePost
    \/ GetPosts
    \/ ClientReceive
    \/ Tick

SpecContent == InitMember /\ [][NextContent]_vars

\* the admin routes
NextAdmin ==
    \/ LoginTrio
    \/ AdminUsers
    \/ Ban
    \/ Unban
    \/ Analytics
    \/ ClientReceive
    \/ Tick

SpecAdmin == InitMember /\ [][NextAdmin]_vars

\* the moderation routes, over a store that holds a post
NextModeration ==
    \/ LoginQuad
    \/ DeletePost
    \/ ClientReceive
    \/ Tick

SpecModeration == InitPosted /\ [][NextModeration]_vars

\* tokens presented to a route behind each gate while the user rows change
NextSession ==
    \/ LoginTrio
    \/ StoreEdit
    \/ Unlike
    \/ Analytics
    \/ GetReports
    \/ ClientReceive
    \/ Elapse

SpecSession == InitMember /\ [][NextSession]_vars

\* the store after bob posted, under either schema
InitLikes ==
    /\ users = Append(SeedUsers, Member)
    /\ posts = <<[id |-> 1, user_id |-> 4, content |-> <<"h","i">>, created_at |-> 0]>>
    /\ nextPostId = 2
    /\ likes = <<>>
    /\ follows = <<>>
    /\ reports = <<>>
    /\ admin_actions = <<>>
    /\ moderation_actions = <<>>
    /\ uniqueConstraint \in BOOLEAN
    /\ now = 0
    /\ held = <<>>
    /\ pc = "idle"
    /\ req = NoReq
    /\ resp = NoResp
    /\ before = <<>>
    /\ regLog = {[username |-> bob, email |-> bobMail]}
    /\ Quiet

\* the like routes and the feed
NextLikes ==
    \/ LoginPair
    \/ Like
    \/ Unlike
    \/ GetPosts
    \/ ClientReceive

SpecLikes == InitLikes /\ [][NextLikes]_vars

\* the store after bob posted and the moderator and the admin reported the post (no route of
\* this server inserts a report: the row is in the store when the routes read it)
InitReported ==
    /\ users = Append(SeedUsers, Member)
    /\ posts = <<[id |-> 1, user_id |-> 4, content |-> <<"h","i">>, created_at |-> 0]>>
    /\ nextPostId = 2
    /\ likes = <<>>
    /\ follows = <<>>
    /\ reports = <<ReportRow(1, 2, 4, 1, 0), ReportRow(2, 1, 4, 1, 0)>>
    /\ admin_actions = <<>>
    /\ moderation_actions = <<>>
    /\ uniqueConstraint = TRUE
    /\ now = 0
    /\ held = <<>>
    /\ pc = "idle"
    /\ req = NoReq
    /\ resp = NoResp
    /\ before = <<>>
    /\ regLog = {[username |-> bob, email |-> bobMail]}
    /\ Quiet

\* the report routes
NextReports ==
    \/ LoginTrio
    \/ GetReports
    \/ Resolve
    \/ ClientReceive
    \/ Tick

SpecReports == InitReported /\ [][NextReports]_vars

\* the store after bob posted, the limiter just constructed, with either store
InitLimiter ==
    /\ users = Append(SeedUsers, Member)
    /\ posts = <<[id |-> 1, user_id |-> 4, content |-> <<"h","i">>, created_at |-> 0]>>
    /\ nextPostId = 2
    /\ likes = <<>>
    /\ follows = <<>>
    /\ reports = <<>>
    /\ admin_actions = <<>>
    /\ moderation_actions = <<>>
    /\ uniqueConstraint = TRUE
    /\ now = 0
    /\ held = <<>>
    /\ pc = "idle"
    /\ req = NoReq
    /\ resp = NoResp
    /\ before = <<>>
    /\ regLog = {[username |-> bob, email |-> bobMail]}
    /\ prior = <<>>
    /\ inflight = <<>>
    /\ Unopened
    /\ \E perKey \in BOOLEAN :
          limiter = [clock |-> 0, perKey |-> perKey,
                     start |-> [a \in Addresses |-> 0],
                     hits |-> [a \in Addresses |-> 0],
                     passed |-> [a \in Addresses |-> <<>>]]

\* requests at the limiter
NextLimiter ==
    \/ Limited
    \/ Advance
    \/ ClientReceive

SpecLimiter == InitLimiter /\ [][NextLimiter]_vars

\* the browser client's post form beside direct calls of the post route
NextClient ==
    \/ LoginPair
    \/ FeedCreatePost
    \/ CreatePost
    \/ GetPosts
    \/ ClientReceive
    \/ Tick

SpecClient == InitMember /\ [][NextClient]_vars

\* the staff accounts, two handlers without a request, either schema
InitRace ==
    /\ users = SeedUsers
    /\ posts = <<>>
    /\ nextPostId = 1
    /\ likes = <<>>
    /\ follows = <<>>
    /\ reports = <<>>
    /\ admin_actions = <<>>
    /\ moderation_actions = <<>>
    /\ uniqueConstraint \in BOOLEAN
    /\ now = 0
    /\ held = <<>>
    /\ pc = "idle"
    /\ req = NoReq
    /\ resp = NoResp
    /\ before = <<>>
    /\ regLog = {}
    /\ prior = <<>>
    /\ inflight = [p \in Procs |-> NoProc]
    /\ limiter = <<>>
    /\ Unopened

\* two registrations handled concurrently, interleaved at their awaits
NextRace ==
    \/ \E p \in Procs : RaceArrive(p)
    \/ \E p \in Procs : RaceQuery(p)
    \/ \E p \in Procs : RaceInsert(p)

SpecRace == InitRace /\ [][NextRace]_vars

\* the store after bob registered, under either schema
InitFollows ==
    /\ users = Append(SeedUsers, Member)
    /\ posts = <<>>
    /\ nextPostId = 1
    /\ likes = <<>>
    /\ follows = <<>>
    /\ reports = <<>>
    /\ admin_actions = <<>>
    /\ moderation_actions = <<>>
    /\ uniqueConstraint \in BOOLEAN
    /\ now = 0
    /\ held = <<>>
    /\ pc = "idle"
    /\ req = NoReq
    /\ resp = NoResp
    /\ before = <<>>
    /\ regLog = {[username |-> bob, email |-> bobMail]}
    /\ Quiet

\* the follow routes and the profile read
NextFollows ==
    \/ LoginPair
    \/ Follow
    \/ Unfollow
    \/ GetProfile
    \/ ClientReceive

SpecFollows == InitFollows /\ [][NextFollows]_vars

----------------------------------------------------------------------------
(* The browser client: the AuthSystem object of js/auth.js and what
   ProfileManager.saveProfile of js/feed.js does to it *)

\* JSON.stringify(value) and JSON.parse(text)
JSONstringify(value) == [json |-> value]
JSONparse(text) == text.json

\* AuthSystem.getCurrentUser(): the stored text parsed, null without one
getCurrentUser ==
    IF localStorage.social_currentUser = Null THEN Null
    ELSE <<JSONparse(localStorage.social_currentUser[1])>>

\* AuthSystem.getToken()
getToken == localStorage.social_token

\* the truth value JavaScript gives a token variable
Truthy(v) == v # Null /\ v # undefined

\* AuthSystem.setCurrentUser(user, token): the storage and the object after it
setCurrentUser(user, token) ==
    [localStorage |-> [social_currentUser |-> <<JSONstringify(user)>>,
                       social_token |-> IF Truthy(token) THEN token
                                        ELSE localStorage.social_token],
     authSystem |-> [currentUser |-> <<user>>, token |-> token]]

\* AuthSystem.getAuthHeaders(): the Authorization words, none without this.token
getAuthHeaders ==
    IF Truthy(authSystem.token) THEN <<"Bearer", authSystem.token[1]>> ELSE <<>>

Pages == {"index.html", "login.html", "signup.html", "profile.html", "dms.html"}

\* the scripts a page may load beside auth.js (the pages' HTML is not among the
\* sources)
Scripts(page) ==
    IF page = "index.html" THEN {{"feed.js", "App"}}
    ELSE IF page = "profile.html" THEN {{"feed.js"}, {"feed.js", "App"}}
    ELSE IF page = "dms.html" THEN SUBSET {"feed.js", "App"}
    ELSE SUBSET {"App"}

\* window.location.href = page: the page is opened, its scripts yet to run
Navigate(page) ==
    \E scripts \in Scripts(page) :
        location' = [Shown(page) EXCEPT !.scripts = scripts, !.ready = FALSE]

\* handleLogin after auth.login() returned the server's 200 response:
\* auth.setCurrentUser(result.user, result.token), then index.html is opened
HandleLogin ==
    /\ pc = "responded"
    /\ req.route = "POST /api/auth/login"
    /\ resp.status = 200
    /\ LET set == setCurrentUser(resp.user[1], resp.token)
       IN  /\ localStorage' = set.localStorage
           /\ authSystem' = set.authSystem
    /\ held' = resp.token
    /\ pc' = "idle"
    /\ req' = NoReq
    /\ resp' = NoResp
    /\ before' = <<>>
    /\ Navigate("index.html")
    /\ UNCHANGED <<tables, uniqueConstraint, now, regLog, prior, inflight, limiter,
                   feedManager, awaiting, dom>>

\* AuthSystem.logout(): the storage is emptied and login.html is opened
Logout ==
    /\ pc = "idle"
    /\ localStorage' = [social_currentUser |-> Null, social_token |-> Null]
    /\ authSystem' = [currentUser |-> Null, token |-> Null]
    /\ held' = <<>>
    /\ Navigate("login.html")
    /\ UNCHANGED <<tables, uniqueConstraint, now, pc, req, resp, before, regLog, prior,
                   inflight, limiter, feedManager, awaiting, dom>>

\* what the edit form holds when it is saved
FormNames == {<<"B">>, <<"Z">>}

\* ProfileManager.saveProfile() with a stored user: the form's fields are assigned
\* to getCurrentUser() and auth.setCurrentUser(currentUser) is called, without token
SaveProfile ==
    /\ pc = "idle"
    /\ getCurrentUser # Null
    /\ \E name \in FormNames :
          LET currentUser_ == [getCurrentUser[1] EXCEPT !.display_name = name,
                                                       !.bio = <<>>,
                                                       !.website = <<>>,
                                                       !.location = <<>>]
              set == setCurrentUser(currentUser_, undefined)
          IN  /\ localStorage' = set.localStorage
              /\ authSystem' = set.authSystem
    /\ UNCHANGED <<tables, uniqueConstraint, now, held, pc, req, resp, before, regLog,
                   prior, inflight, limiter, feedManager, location, awaiting, dom>>

\* a page is loaded: new AuthSystem() reads the storage
PageLoad ==
    /\ pc = "idle"
    /\ authSystem' = [currentUser |-> getCurrentUser, token |-> getToken]
    /\ UNCHANGED <<tables, uniqueConstraint, now, held, pc, req, resp, before, regLog,
                   prior, inflight, limiter, localStorage, feedManager, location,
                   awaiting, dom>>

\* logins, profile edits, logouts and page loads of one browser
NextStorage ==
    \/ LoginPair
    \/ HandleLogin
    \/ ClientReceive
    \/ SaveProfile
    \/ Logout
    \/ PageLoad
    \/ Tick

SpecStorage == InitMember /\ [][NextStorage]_vars

----------------------------------------------------------------------------
(* The browser client: the guards that run when a page is loaded. The pages' HTML
   is not among the sources: auth.js, whose globals the other two scripts use, is
   taken to be on every page, feed.js on the feed page and the profile page and
   possibly on dms.html, the App script on the feed page and possibly elsewhere
   (Scripts). *)

MaxHops == 2

\* no assignment to window.location.href
Stay == ""

\* a guard of App that sends every page without a stored user to login.html
checkAuthStateEveryPage(page) ==
    IF getCurrentUser = Null THEN "login.html" ELSE Stay

\* App.checkAuthState(): without a stored user the pages index.html, profile.html
\* and dms.html go to login.html
checkAuthState(page) ==
    IF getCurrentUser = Null /\ page \in {"index.html", "profile.html", "dms.html"}
    THEN "login.html" ELSE Stay

\* checkAuthStatus() of auth.js: with a stored user login.html and signup.html go to
\* index.html; without one profile.html and dms.html go to login.html
checkAuthStatus(page) ==
    IF getCurrentUser # Null /\ page \in {"login.html", "signup.html"}
    THEN "index.html"
    ELSE IF getCurrentUser = Null /\ page \in {"profile.html", "dms.html"}
    THEN "login.html"
    ELSE Stay

\* ProfileManager.loadOwnProfile(), which new ProfileManager() reaches when the
\* address names no user: without a stored user, to login.html
loadOwnProfile(page) ==
    IF getCurrentUser = Null THEN "login.html" ELSE Stay

\* the assignments to window.location.href the page's scripts make
Redirects(page, scripts) ==
    ({checkAuthStatus(page)}
     \cup (IF "App" \in scripts THEN {checkAuthState(page)} ELSE {})
     \cup (IF "feed.js" \in scripts THEN {loadOwnProfile(page)} ELSE {}))
    \ {Stay}

\* the user opens a page
OpenPage ==
    /\ pc = "idle"
    /\ location.ready
    /\ \E page \in Pages : Navigate(page)
    /\ UNCHANGED <<tables, uniqueConstraint, now, held, pc, req, resp, before, regLog,
                   prior, inflight, limiter, authSystem, localStorage, feedManager,
                   awaiting, dom>>

\* the page's scripts run: new AuthSystem() reads the storage, the guards run, and
\* the browser follows an assignment to window.location.href to the next page
RunGuards ==
    /\ pc = "idle"
    /\ ~location.ready
    /\ authSystem' = [currentUser |-> getCurrentUser, token |-> getToken]
    /\ LET targets == Redirects(location.pathname, location.scripts)
       IN  IF targets = {}
           THEN location' = [location EXCEPT !.ready = TRUE]
           ELSE /\ location.hops < MaxHops
                /\ \E target \in targets : \E scripts \in Scripts(target) :
                      /\ location' = [location EXCEPT !.pathname = target,
                                                      !.hops = @ + 1,
                                                      !.scripts = scripts]
    /\ UNCHANGED <<tables, uniqueConstraint, now, held, pc, req, resp, before, regLog,
                   prior, inflight, limiter, localStorage, feedManager, awaiting, dom>>

\* one browser: logins, logouts and the pages opened
NextPages ==
    \/ LoginPair
    \/ HandleLogin
    \/ ClientReceive
    \/ Logout
    \/ OpenPage
    \/ RunGuards

SpecPages == InitMember /\ [][NextPages]_vars

----------------------------------------------------------------------------
(* The browser client: the FeedManager object of js/feed.js on the feed page, with
   the global App script beside it. An async call runs to its await in one step and
   is resumed in another; between the two its request is answered. *)

MaxCalls == 2
MaxGestures == 1

\* what the user may have typed into postInput
PostInputs == {<<" ">>, <<"h", "i">>, Repeat("x", PostLimit + 1)}

\* FeedManager.updatePostButton(): postButton.disabled
updatePostButton(value) == Len(trim(value)) = 0 \/ Len(trim(value)) > 280

\* a call suspended at its fetch: its request is on the way ("fetch") or answered
Call(fn, body, then) ==
    [fn |-> fn, at |-> "fetch", body |-> body, then |-> then, response |-> NoResp,
     failed |-> FALSE]

\* the calls of that function that are suspended
Suspended(fn) == SelectSeq(awaiting, LAMBDA c : c.fn = fn)

\* the sequence without its k-th element
RemoveAt(seq, k) == SubSeq(seq, 1, k - 1) \o SubSeq(seq, k + 1, Len(seq))

\* the page's history
NoHistory ==
    [initialized |-> FALSE, calls |-> 0, skipped |-> FALSE, gestures |-> 0, issued |-> 0,
     overlapped |-> FALSE, acknowledged |-> {}]

\* a load that starts although one is running
loadInitialPostsUnguarded(then) ==
    [skipped |-> FALSE,
     feedManager |-> [feedManager EXCEPT !.isLoading = TRUE],
     awaiting |-> Append(awaiting, Call("loadInitialPosts", <<>>, then))]

\* FeedManager.loadInitialPosts() up to its fetch: if (this.isLoading) return;
\* this.isLoading = true; fetch(`${API_BASE_URL}/posts`)
loadInitialPosts(then) ==
    IF feedManager.isLoading
    THEN [skipped |-> TRUE, feedManager |-> feedManager, awaiting |-> awaiting]
    ELSE [skipped |-> FALSE,
          feedManager |-> [feedManager EXCEPT !.isLoading = TRUE],
          awaiting |-> Append(awaiting, Call("loadInitialPosts", <<>>, then))]

\* a call of loadInitialPosts from one of its callers
StartLoad(then) ==
    LET call == loadInitialPosts(then)
    IN  /\ pc = "idle"
        /\ prior.calls < MaxCalls
        /\ feedManager' = [call.feedManager EXCEPT !.currentFeed =
                              IF then = "toggleFeeds"
                              THEN IF @ = "for-you" THEN "following" ELSE "for-you"
                              ELSE @]
        /\ awaiting' = call.awaiting
        /\ prior' = [prior EXCEPT !.calls = @ + 1,
                                  !.skipped = call.skipped,
                                  !.initialized = @ \/ then = "setupEventListeners"]
        /\ UNCHANGED <<tables, uniqueConstraint, now, held, pc, req, resp, before, regLog,
                       inflight, limiter, authSystem, localStorage, location, dom>>

\* DOMContentLoaded: feedManager.initialize(), which awaits loadInitialPosts() and
\* then calls setupEventListeners()
Initialize == ~prior.initialized /\ StartLoad("setupEventListeners")

\* App.toggleFeeds: the feed is switched and feedManager.loadInitialPosts() called
ToggleFeeds == prior.initialized /\ StartLoad("toggleFeeds")

\* the touchmove listener of setupPullToRefresh: this.loadInitialPosts()
PullToRefresh == dom.listeners /\ StartLoad("none")

\* the fetch of a suspended loadInitialPosts is answered by GET /api/posts, by
\* another status, or fails
ServeGetPosts ==
    /\ pc = "idle"
    /\ \E k \in DOMAIN awaiting, outcome \in {"ok", "not ok", "failed"} :
          /\ awaiting[k].fn = "loadInitialPosts"
          /\ awaiting[k].at = "fetch"
          /\ awaiting' = [awaiting EXCEPT
                ![k].at = "answered",
                ![k].failed = outcome = "failed",
                ![k].response =
                    IF outcome = "ok"
                    THEN getPosts(Request("GET /api/posts", <<>>, <<>>, <<>>, <<>>)).resp
                    ELSE IF outcome = "not ok" THEN TooManyRequests
                    ELSE NoResp]
    /\ UNCHANGED <<tables, uniqueConstraint, now, held, pc, req, resp, before, regLog,
                   prior, inflight, limiter, authSystem, localStorage, feedManager,
                   location, dom>>

\* loadInitialPosts goes on after its await: this.posts = posts || [] when
\* response.ok, and finally this.isLoading = false
ResumeLoad ==
    /\ pc = "idle"
    /\ \E k \in DOMAIN awaiting :
          /\ awaiting[k].fn = "loadInitialPosts"
          /\ awaiting[k].at = "answered"
          /\ feedManager' = [feedManager EXCEPT
                !.posts = IF ~awaiting[k].failed /\ awaiting[k].response.status = 200
                          THEN awaiting[k].response.posts ELSE @,
                !.isLoading = FALSE]
          /\ dom' = [dom EXCEPT !.listeners = @ \/ awaiting[k].then = "setupEventListeners"]
          /\ awaiting' = RemoveAt(awaiting, k)
    /\ UNCHANGED <<tables, uniqueConstraint, now, held, pc, req, resp, before, regLog,
                   prior, inflight, limiter, authSystem, localStorage, location>>

\* the user types; the input listener, once registered, runs updateCharCounter()
\* and updatePostButton()
TypeInput ==
    /\ pc = "idle"
    /\ \E value \in PostInputs :
          /\ value # dom.postInput
          /\ dom' = [dom EXCEPT !.postInput = value,
                                !.postButton.disabled =
                                    IF dom.listeners THEN updatePostButton(value) ELSE @]
    /\ UNCHANGED <<tables, uniqueConstraint, now, held, pc, req, resp, before, regLog,
                   prior, inflight, limiter, authSystem, localStorage, feedManager,
                   location, awaiting>>

\* FeedManager.handlePostCreation() and the createPost(content) it calls, up to the
\* fetch, on the form and the suspended calls given
handlePostCreation(page) ==
    LET content == trim(page.dom.postInput)
    IN  IF content = <<>> THEN page
        ELSE IF getCurrentUser = Null THEN page
        ELSE IF Len(trim(content)) = 0 \/ Len(content) > 280 THEN page
        ELSE [dom |-> [page.dom EXCEPT !.postButton.disabled = TRUE],
              awaiting |-> Append(page.awaiting,
                              Call("createPost",
                                   [userId |-> getCurrentUser[1].id,
                                    content |-> trim(content)], "none")),
              issued |-> page.issued + 1]

\* the listeners a keydown of Ctrl/Cmd+Enter in the focused postInput reaches:
\* FeedManager's on postInput once setupEventListeners has run, then App's on
\* document, to which the event bubbles
KeydownListeners == IF dom.listeners THEN 2 ELSE 1

\* one gesture, which runs handlePostCreation that many times
Gesture(times) ==
    LET page0 == [dom |-> dom, awaiting |-> awaiting, issued |-> 0]
        page1 == handlePostCreation(page0)
        page2 == IF times = 2 THEN handlePostCreation(page1) ELSE page1
    IN  /\ pc = "idle"
        /\ prior.gestures < MaxGestures
        /\ dom' = page2.dom
        /\ awaiting' = page2.awaiting
        /\ prior' = [prior EXCEPT
              !.gestures = @ + 1,
              !.issued = page2.issued,
              !.overlapped = @ \/ (page2.issued > 0 /\ Suspended("createPost") # <<>>)]
        /\ UNCHANGED <<tables, uniqueConstraint, now, held, pc, req, resp, before, regLog,
                       inflight, limiter, authSystem, localStorage, feedManager, location>>

\* Ctrl/Cmd+Enter pressed once in postInput
PressCtrlEnter == Gesture(KeydownListeners)

\* a click on postButton, which a disabled button does not deliver
ClickPost == dom.listeners /\ ~dom.postButton.disabled /\ Gesture(1)

\* the fetch of a suspended createPost is answered by POST /api/posts: to the
\* request as it was sent, or as that route answers the same request when it
\* carries the stored token
ServePost ==
    /\ pc = "idle"
    /\ \E k \in DOMAIN awaiting, h \in {FeedPostHeaders, getAuthHeaders} :
          /\ awaiting[k].fn = "createPost"
          /\ awaiting[k].at = "fetch"
          /\ LET o == createPost(Request("POST /api/posts", h, awaiting[k].body,
                                         <<>>, <<>>))
             IN  /\ o.db.nextPostId <= MaxPosts + 1
                 /\ posts' = o.db.posts
                 /\ nextPostId' = o.db.nextPostId
                 /\ awaiting' = [awaiting EXCEPT ![k].at = "answered",
                                                 ![k].response = o.resp]
    /\ UNCHANGED <<users, likes, follows, reports, admin_actions, moderation_actions,
                   uniqueConstraint, now, held, pc, req, resp, before, regLog, prior,
                   inflight, limiter, authSystem, localStorage, feedManager, location,
                   dom>>

\* createPost goes on after its await: on response.ok this.posts.unshift(newPost)
\* and the input is cleared; finally setPostButtonLoading(false)
ResumePost ==
    /\ pc = "idle"
    /\ \E k \in DOMAIN awaiting :
          /\ awaiting[k].fn = "createPost"
          /\ awaiting[k].at = "answered"
          /\ LET ok == awaiting[k].response.status = 200
                 value == IF ok THEN <<>> ELSE dom.postInput
             IN  /\ feedManager' = [feedManager EXCEPT
                       !.posts = IF ok THEN awaiting[k].response.posts \o @ ELSE @]
                 /\ dom' = [dom EXCEPT !.postInput = value,
                                       !.postButton.disabled = updatePostButton(value)]
                 /\ prior' = [prior EXCEPT !.acknowledged =
                       IF ok THEN @ \cup {awaiting[k].response.posts[1].id} ELSE @]
          /\ awaiting' = RemoveAt(awaiting, k)
    /\ UNCHANGED <<tables, uniqueConstraint, now, held, pc, req, resp, before, regLog,
                   inflight, limiter, authSystem, localStorage, location>>

\* the feed page of the member who has logged in, its scripts constructed, over a
\* store without posts or with one
InitFeed ==
    /\ users = Append(SeedUsers, Member)
    /\ posts \in {<<>>, <<[id |-> 1, user_id |-> 1, content |-> <<"h","i">>, created_at |-> 0]>>}
    /\ nextPostId = Len(posts) + 1
    /\ likes = <<>>
    /\ follows = <<>>
    /\ reports = <<>>
    /\ admin_actions = <<>>
    /\ moderation_actions = <<>>
    /\ uniqueConstraint = TRUE
    /\ now = 0
    /\ held = <<jwtSign(TokenClaims(Member), JWT_SECRET, 0)>>
    /\ pc = "idle"
    /\ req = NoReq
    /\ resp = NoResp
    /\ before = <<>>
    /\ regLog = {[username |-> bob, email |-> bobMail]}
    /\ prior = NoHistory
    /\ inflight = <<>>
    /\ limiter = <<>>
    /\ localStorage = [social_currentUser |-> <<JSONstringify(userWithoutPassword(Member))>>,
                       social_token |-> held]
    /\ authSystem = [currentUser |-> <<userWithoutPassword(Member)>>, token |-> held]
    /\ feedManager = [posts |-> <<>>, isLoading |-> FALSE, currentFeed |-> "for-you"]
    /\ location = Shown("index.html")
    /\ awaiting = <<>>
    /\ dom = [postInput |-> <<>>, postButton |-> [disabled |-> TRUE], listeners |-> FALSE]

NextFeed ==
    \/ Initialize
    \/ ToggleFeeds
    \/ PullToRefresh
    \/ ServeGetPosts
    \/ ResumeLoad
    \/ TypeInput
    \/ PressCtrlEnter
    \/ ClickPost
    \/ ServePost
    \/ ResumePost

SpecFeed == InitFeed /\ [][NextFeed]_vars

\* the loads of the feed page alone
NextLoad ==
    \/ Initialize
    \/ ToggleFeeds
    \/ PullToRefresh
    \/ ServeGetPosts
    \/ ResumeLoad
    \/ TypeInput

\* every fetch settles and the event loop resumes the call that awaits it
SpecLoad ==
    InitFeed /\ [][NextLoad]_vars /\ WF_vars(ServeGetPosts) /\ WF_vars(ResumeLoad)


----------------------------------------------------------------------------
(* Vocabulary of the properties *)

Responded == pc = "responded"

\* the token of the request handled last, if its header carries one
Presented == BearerToken(req.header)

Expired(t)     == now >= t.payload.exp
WrongSecret(t) == t.sig.secret # JWT_SECRET
Malformed(t)   == ~t.wellformed

\* a token the server signed over these very claims and that has not expired
ValidToken(t) ==
    /\ t.wellformed
    /\ t.sig = [secret |-> JWT_SECRET, over |-> t.payload]
    /\ now < t.payload.exp

\* every user object a response carries
UserObjects ==
    Range(resp.user) \cup Range(resp.users)
    \cup UNION {Range(resp.posts[i].user) : i \in DOMAIN resp.posts}

\* whether the table holds a like of the post by the user
HasLiked(table, user_id, post_id) ==
    \E i \in DOMAIN table : table[i].user_id = user_id /\ table[i].post_id = post_id

\* what GET /api/posts reports now
Feed == getPosts(Request("GET /api/posts", <<>>, <<>>, <<>>, <<>>)).resp.posts

\* the counts GET /api/users/:username reports now for the user of that name
ProfileCounts(username) ==
    getProfile(Request("GET /api/users/:username", <<>>, <<>>,
                       [username |-> username], <<>>)).resp.counts[1]

\* 1 when the condition holds, else 0
One(cond) == IF cond THEN 1 ELSE 0

AdminRoutes ==
    {"GET /api/admin/users", "POST /api/admin/users/:id/ban",
     "POST /api/admin/users/:id/unban", "GET /api/admin/analytics"}

----------------------------------------------------------------------------
(* C1: no response of any route carries a user's password or password_hash *)
C1_NoPasswordInResponse ==
    Responded =>
        \A u \in UserObjects : "password_hash" \notin DOMAIN u /\ "password" \notin DOMAIN u

(* C2: once a registration with a username string has succeeded, a later valid
   registration with the same username string and another email is answered 400
   'Username already exists' and adds no row; likewise 400 'Email already exists'
   for the same email string with a username that differs, even up to letter case,
   from every username registered before *)
C2_DuplicateRegistrationRejected ==
    (/\ Responded
     /\ req.route = "POST /api/auth/register"
     /\ ValidDisplayName(req.body.displayName) /\ ValidUsername(req.body.username)
     /\ ValidEmail(req.body.email) /\ ValidPassword(req.body.password))
    =>
    /\ (\E e \in before.regLog : e.username = req.body.username /\ e.email # req.body.email)
          => /\ resp.status = 400
             /\ resp.error = "Username already exists"
             /\ users = before.db.users
    /\ (/\ \E e \in before.regLog : e.email = req.body.email
        /\ \A e \in before.regLog :
              toLowerCase(e.username) # toLowerCase(req.body.username))
          => /\ resp.status = 400
             /\ resp.error = "Email already exists"
             /\ users = before.db.users

(* C3: a request whose bearer token is expired, malformed or signed with another
   secret never gets past authenticateToken, whatever its claims: next() is not
   called, req.user is not set, and no table is written *)
C3_BadTokenStopsAtGate ==
    (/\ Responded
     /\ Presented # <<>>
     /\ Expired(Presented[1]) \/ Malformed(Presented[1]) \/ WrongSecret(Presented[1]))
    =>
    /\ resp.stage = "authenticateToken"
    /\ req.user = <<>>
    /\ DB = before.db

\* a post request with valid content and a well-signed token of a staff member,
\* refused because the token has expired
C3_Witness ==
    /\ Responded
    /\ req.route = "POST /api/posts"
    /\ Presented # <<>>
    /\ Expired(Presented[1]) /\ ~Malformed(Presented[1]) /\ ~WrongSecret(Presented[1])
    /\ Presented[1].payload.is_admin
    /\ ValidContent(req.body.content)
    /\ resp.stage = "authenticateToken"

(* C4 as stated: authenticateToken answers 401 for a missing and for an invalid
   token alike, and 403 comes from the role gates only *)
C4_GateAlways401 ==
    Responded =>
        /\ resp.stage = "authenticateToken" => resp.status = 401
        /\ resp.status = 403 => resp.stage \in {"requireAdmin", "requireModerator"}

(* C4 amended: authenticateToken answers 401 exactly when the header carries no
   token and 403 when it carries one that jwt.verify refuses; a 403 comes from
   authenticateToken for such a token or from a role gate for an authenticated
   caller whose role claims do not suffice *)
C4_Gate401Missing403Invalid ==
    Responded =>
        /\ resp.stage = "authenticateToken" =>
              /\ Presented = <<>> => resp.status = 401
              /\ Presented # <<>> => resp.status = 403 /\ ~ValidToken(Presented[1])
        /\ (req.route \in AdminRoutes /\ Presented = <<>>) =>
              resp.stage = "authenticateToken" /\ resp.status = 401
        /\ (req.route \in AdminRoutes /\ Presented # <<>> /\ ~ValidToken(Presented[1])) =>
              resp.stage = "authenticateToken" /\ resp.status = 403
        /\ resp.status = 403 =>
              \/ resp.stage = "authenticateToken"
              \/ /\ resp.stage = "requireAdmin"
                 /\ req.user # <<>>
                 /\ ~req.user[1].is_admin

\* an admin route refused with 403 by authenticateToken: the token is there but forged
C4_Witness ==
    /\ Responded
    /\ req.route \in AdminRoutes
    /\ Presented # <<>>
    /\ WrongSecret(Presented[1])
    /\ resp.stage = "authenticateToken"
    /\ resp.status = 403

(* C5: on the admin routes a valid token without is_admin is answered 403 and the
   tables users and admin_actions stay as they were; a valid token with is_admin
   passes the gate and reaches the handler (the ban route's body validation lies
   between the two) *)
C5_AdminGate ==
    (/\ Responded
     /\ req.route \in AdminRoutes
     /\ Presented # <<>>
     /\ ValidToken(Presented[1]))
    =>
    /\ ~Presented[1].payload.is_admin =>
          /\ resp.status = 403
          /\ resp.stage = "requireAdmin"
          /\ users = before.db.users
          /\ admin_actions = before.db.admin_actions
    /\ Presented[1].payload.is_admin =>
          /\ resp.stage \in {"validation", "handler"}
          /\ resp.stage = "validation" =>
                /\ req.route = "POST /api/admin/users/:id/ban"
                /\ ~ValidDuration(req.body.duration_hours)

\* a well-formed ban of the member asked with the moderator's valid token
C5_Witness ==
    /\ Responded
    /\ req.route = "POST /api/admin/users/:id/ban"
    /\ Presented # <<>>
    /\ ValidToken(Presented[1])
    /\ ~Presented[1].payload.is_admin /\ Presented[1].payload.is_moderator
    /\ req.params.id = 4
    /\ ValidDuration(req.body.duration_hours)
    /\ resp.status = 403

(* C6: requireModerator lets an authenticated request pass exactly when its token
   has is_moderator or is_admin; with both false the answer is 403, and a request
   the gate refuses leaves every table as it was *)
C6_ModeratorGate ==
    (/\ Responded
     /\ req.route = "DELETE /api/admin/posts/:id"
     /\ Presented # <<>>
     /\ ValidToken(Presented[1]))
    =>
    LET c == Presented[1].payload
    IN  /\ (c.is_moderator \/ c.is_admin) <=> resp.stage = "handler"
        /\ (~c.is_moderator /\ ~c.is_admin) <=>
              (resp.stage = "requireModerator" /\ resp.status = 403)
        /\ resp.stage = "requireModerator" => DB = before.db

\* the moderator, who is no admin, deletes the post
C6_Witness ==
    /\ Responded
    /\ req.route = "DELETE /api/admin/posts/:id"
    /\ Presented # <<>>
    /\ ValidToken(Presented[1])
    /\ Presented[1].payload.is_moderator /\ ~Presented[1].payload.is_admin
    /\ resp.status = 200
    /\ posts = <<>> /\ before.db.posts # <<>>

(* C7: the token of a successful login carries the id, username, is_admin and
   is_moderator of the stored row the identifier names, and the user object
   beside it carries the same values *)
C7_LoginTokenMatchesRow ==
    (/\ Responded
     /\ req.route = "POST /api/auth/login"
     /\ resp.status = 200)
    =>
    /\ Len(resp.token) = 1 /\ Len(resp.user) = 1
    /\ \E i \in DOMAIN users :
          /\ users[i].username = req.body.identifier \/ users[i].email = req.body.identifier
          /\ resp.token[1].payload.id = users[i].id
          /\ resp.token[1].payload.username = users[i].username
          /\ resp.token[1].payload.is_admin = users[i].is_admin
          /\ resp.token[1].payload.is_moderator = users[i].is_moderator
          /\ resp.user[1].id = users[i].id
          /\ resp.user[1].is_admin = users[i].is_admin
          /\ resp.user[1].is_moderator = users[i].is_moderator

\* the moderator logs in after a member has registered
C7_Witness ==
    /\ Responded
    /\ req.route = "POST /api/auth/login"
    /\ req.body.identifier = mod
    /\ Len(users) > Len(SeedUsers)
    /\ resp.status = 200
    /\ resp.token[1].payload.is_moderator /\ ~resp.token[1].payload.is_admin

(* C8: a login with non-empty identifier and password that does not succeed is
   answered 401 {error: 'Invalid credentials'} and no token, the same response
   whether no account matches or the account exists and the password is wrong *)
C8_LoginFailsUniformly ==
    (/\ Responded
     /\ req.route = "POST /api/auth/login"
     /\ notEmpty(req.body.identifier) /\ notEmpty(req.body.password)
     /\ resp.status # 200)
    =>
    resp = [NoResp EXCEPT !.status = 401, !.stage = "handler",
                          !.error = "Invalid credentials"]

\* a registered account asked for with the wrong password
C8_Witness ==
    /\ Responded
    /\ req.route = "POST /api/auth/login"
    /\ \E i \in DOMAIN users : users[i].username = req.body.identifier /\ users[i].id > 3
    /\ req.body.password = wrongPw
    /\ resp.status = 401

(* C9: create post accepts an authenticated request exactly when the trimmed
   content has length 1 to 280, so every stored post has trimmed content of
   length 1 to 280 *)
C9_TrimmedLengthDecides ==
    /\ (Responded /\ req.route = "POST /api/posts" /\ req.user # <<>>) =>
          (resp.status = 200 <=>
              (Len(trim(req.body.content)) >= 1 /\ Len(trim(req.body.content)) <= 280))
    /\ \A i \in DOMAIN posts :
          /\ posts[i].content = trim(posts[i].content)
          /\ Len(posts[i].content) >= 1 /\ Len(posts[i].content) <= 280

(* C10: the user_id of a created post is the id claim of the request's verified
   token, and the body's userId has no part in it: the same request with any other
   userId would have stored the same row *)
C10_OwnerFromToken ==
    /\ (Responded /\ req.route = "POST /api/posts" /\ resp.status = 200) =>
          /\ Len(posts) = Len(before.db.posts) + 1
          /\ posts[Len(posts)].user_id = Presented[1].payload.id
          /\ resp.posts[1].user_id = Presented[1].payload.id
    /\ pc = "idle" =>
          \A h \in Headers, c \in Contents, u1 \in {1, 4}, u2 \in {1, 4} :
              createPost(Request("POST /api/posts", h, [userId |-> u1, content |-> c],
                                 <<>>, <<>>)).db
              = createPost(Request("POST /api/posts", h, [userId |-> u2, content |-> c],
                                   <<>>, <<>>)).db

\* the member posts with a body that names the admin as userId
C10_Witness ==
    /\ Responded
    /\ req.route = "POST /api/posts"
    /\ resp.status = 200
    /\ req.body.userId = 1
    /\ Presented[1].payload.id = 4
    /\ posts[Len(posts)].user_id = 4

(* C11: when a user who has not liked a post likes it, the likes_count GET /api/posts
   reports for the post rises by exactly one; when the same user's unlike follows,
   the reported count is again what it was before the like *)
C11_LikeThenUnlike ==
    /\ (/\ Responded
        /\ req.route = "POST /api/posts/:id/like"
        /\ resp.status = 200
        /\ ~HasLiked(before.db.likes, req.user[1].id, req.params.id))
       => \A i \in DOMAIN Feed :
             Feed[i].id = req.params.id =>
                Feed[i].likes_count = LikesCountIn(before.db.likes, req.params.id) + 1
    /\ (/\ Responded
        /\ req.route = "DELETE /api/posts/:id/like"
        /\ resp.status = 200
        /\ prior # <<>>
        /\ prior[1].req.route = "POST /api/posts/:id/like"
        /\ prior[1].after = before.db
        /\ prior[1].req.user[1].id = req.user[1].id
        /\ prior[1].req.params.id = req.params.id
        /\ ~HasLiked(prior[1].before.likes, req.user[1].id, req.params.id))
       => \A i \in DOMAIN Feed :
             Feed[i].id = req.params.id =>
                /\ Feed[i].likes_count = LikesCountIn(prior[1].before.likes, req.params.id)
                /\ LikesCountIn(before.db.likes, req.params.id) = Feed[i].likes_count + 1

\* the member unlikes the post right after liking it, while another user's like stands
C11_Witness ==
    /\ Responded
    /\ req.route = "DELETE /api/posts/:id/like"
    /\ resp.status = 200
    /\ req.params.id = 1
    /\ prior # <<>>
    /\ prior[1].req.route = "POST /api/posts/:id/like"
    /\ prior[1].after = before.db
    /\ prior[1].req.user[1].id = req.user[1].id
    /\ prior[1].req.params.id = 1
    /\ ~HasLiked(prior[1].before.likes, req.user[1].id, 1)
    /\ LikesCount(1) = 1
    /\ LikesCountIn(before.db.likes, 1) = 2

(* C12: when A, who does not follow B, follows B, the profile read reports B's
   followers_count and A's following_count each raised by exactly one and every
   other count of every user as it was; when A's unfollow of B follows, every
   user's two counts are again what they were before the follow *)
C12_FollowThenUnfollow ==
    /\ (/\ Responded
        /\ req.route = "POST /api/users/:username/follow"
        /\ resp.status = 200)
       => LET A == req.user[1].id
              B == FollowTarget(req.params.username)[1]
          IN  ~(FollowRow(A, B) \in Range(before.db.follows)) =>
                 \A i \in DOMAIN users :
                    LET u == users[i] IN
                    /\ ProfileCounts(u.username).followers_count
                          = FollowersCountIn(before.db.follows, u.id) + One(u.id = B)
                    /\ ProfileCounts(u.username).following_count
                          = FollowingCountIn(before.db.follows, u.id) + One(u.id = A)
    /\ (/\ Responded
        /\ req.route = "DELETE /api/users/:username/follow"
        /\ resp.status = 200
        /\ prior # <<>>
        /\ prior[1].req.route = "POST /api/users/:username/follow"
        /\ prior[1].after = before.db
        /\ prior[1].req.user[1].id = req.user[1].id
        /\ prior[1].req.params.username = req.params.username)
       => LET A == req.user[1].id
              B == FollowTarget(req.params.username)[1]
          IN  ~(FollowRow(A, B) \in Range(prior[1].before.follows)) =>
                 \A i \in DOMAIN users :
                    LET u == users[i] IN
                    /\ ProfileCounts(u.username).followers_count
                          = FollowersCountIn(prior[1].before.follows, u.id)
                    /\ ProfileCounts(u.username).following_count
                          = FollowingCountIn(prior[1].before.follows, u.id)

\* the member unfollows the admin right after following them, while the member
\* is followed by another user
C12_Witness ==
    /\ Responded
    /\ req.route = "DELETE /api/users/:username/follow"
    /\ resp.status = 200
    /\ req.params.username = root
    /\ req.user[1].id = 4
    /\ prior # <<>>
    /\ prior[1].req.route = "POST /api/users/:username/follow"
    /\ prior[1].after = before.db
    /\ prior[1].req.user[1].id = 4
    /\ prior[1].req.params.username = root
    /\ ~(FollowRow(4, 1) \in Range(prior[1].before.follows))
    /\ FollowRow(4, 1) \in Range(before.db.follows)
    /\ Len(follows) = 1
    /\ follows[1].following_id = 4

\* the users table with the row of that id given these two ban columns
WithBanColumns(table, id, is_banned, banned_until) ==
    [i \in DOMAIN table |->
        IF table[i].id = id
        THEN [table[i] EXCEPT !.is_banned = is_banned, !.banned_until = banned_until]
        ELSE table[i]]

(* C13: a ban answered 200 leaves the user of that id with is_banned true and
   banned_until at the request's time plus duration_hours, an unban answered 200
   leaves them with is_banned false and banned_until null, and either leaves every
   other column of that row and every other row as it was *)
C13_BanFields ==
    /\ (Responded /\ req.route = "POST /api/admin/users/:id/ban" /\ resp.status = 200)
       => /\ req.body.duration_hours >= 1
          /\ users = WithBanColumns(before.db.users, req.params.id, TRUE,
                                    <<now + req.body.duration_hours>>)
    /\ (Responded /\ req.route = "POST /api/admin/users/:id/unban" /\ resp.status = 200)
       => users = WithBanColumns(before.db.users, req.params.id, FALSE, Null)

\* the member, banned at an earlier request, is unbanned
C13_Witness ==
    /\ Responded
    /\ req.route = "POST /api/admin/users/:id/unban"
    /\ resp.status = 200
    /\ \E i \in DOMAIN users :
          /\ users[i].id = req.params.id
          /\ before.db.users[i].is_banned
          /\ before.db.users[i].banned_until # Null
          /\ ~users[i].is_banned
          /\ users[i].banned_until = Null
    /\ Len(admin_actions) = 2

(* C20: in the ban handler, when the admin_actions insert fails after the users
   update succeeded, the user stays banned, no audit row is written and the
   answer is still the success response; when the users update fails, no table
   is written and the answer is 500 *)
C20_BanPartialWrites ==
    (/\ Responded
     /\ req.route = "POST /api/admin/users/:id/ban"
     /\ resp.stage = "handler")
    =>
    /\ req.fault = "audit" =>
          /\ resp.status = 200
          /\ resp.message = "User banned successfully"
          /\ users = WithBanColumns(before.db.users, req.params.id, TRUE,
                                    <<now + req.body.duration_hours>>)
          /\ admin_actions = before.db.admin_actions
    /\ req.fault = "update" =>
          /\ resp.status = 500
          /\ DB = before.db
    /\ req.fault = "none" =>
          /\ resp.status = 200
          /\ Len(admin_actions) = Len(before.db.admin_actions) + 1

\* the member is banned and answered 200 while the audit insert failed
C20_Witness ==
    /\ Responded
    /\ req.route = "POST /api/admin/users/:id/ban"
    /\ req.fault = "audit"
    /\ req.params.id = 4
    /\ resp.status = 200
    /\ \E i \in DOMAIN users : users[i].id = 4 /\ users[i].is_banned
                                /\ ~before.db.users[i].is_banned
    /\ admin_actions = <<>>

(* C14: a report's status is 'pending' or 'resolved'; a request never takes a
   resolved report back to pending; and a resolve request on a report that was
   already resolved leaves its resolved_by, resolved_at and resolution_notes as
   they were *)
C14_ReportResolvedOnce ==
    /\ \A i \in DOMAIN reports : reports[i].status \in {"pending", "resolved"}
    /\ Responded =>
          \A i \in DOMAIN reports :
             before.db.reports[i].status = "resolved" =>
                /\ reports[i].status = "resolved"
                /\ reports[i].resolved_by = before.db.reports[i].resolved_by
                /\ reports[i].resolved_at = before.db.reports[i].resolved_at
                /\ reports[i].resolution_notes = before.db.reports[i].resolution_notes

RECURSIVE Passed(_)
\* how many requests a log counts
Passed(log) == IF log = <<>> THEN 0 ELSE Head(log).n + Passed(Tail(log))

\* the requests of the address that passed since the given time
PassedSince(a, t) == Passed(SelectSeq(limiter.passed[a], LAMBDA e : e.t >= t))

(* C15 as stated: of every address, at most 100 requests pass the limiter within
   any interval of 15 minutes, and a request the limiter rejects reaches no handler *)
C15_SlidingWindow ==
    /\ \A a \in Addresses : PassedSince(a, limiter.clock - windowMinutes + 1) <= 100
    /\ (Responded /\ resp.stage = "limiter") =>
          resp = TooManyRequests /\ DB = before.db

(* C15 amended: of every address, at most 100 requests pass the limiter between
   two resets of that address's counter, which are 15 minutes apart; a request is
   rejected with 429 exactly when the counter, that request counted, exceeds 100,
   and a rejected request reaches no handler. Across a reset more than 100 requests
   of one address can pass within 15 minutes *)
C15_FixedWindow ==
    /\ \A a \in Addresses :
          /\ limiter.clock < limiter.start[a] + windowMinutes =>
                PassedSince(a, limiter.start[a]) <= 100
          /\ PassedSince(a, limiter.clock - windowMinutes + 1) <= 2 * 100
    /\ Responded =>
          /\ resp.stage = "limiter" <=> limiter.hits[req.ip] > 100
          /\ resp.stage = "limiter" => resp = TooManyRequests /\ DB = before.db
          /\ resp.stage # "limiter" => resp.stage = "handler" /\ resp.status = 200

\* the 101st request of one address in a window is rejected while the other
\* address's request has passed
C15_Witness ==
    /\ Responded
    /\ req.ip = "a"
    /\ resp.status = 429
    /\ limiter.hits["a"] = 101
    /\ PassedSince("a", limiter.start["a"]) = 100
    /\ PassedSince("b", limiter.start["b"]) >= 1

(* C16: GET /api/admin/users with page p >= 1 and limit L >= 1, given in the URL
   or defaulted, and no search, returns exactly the users at positions (p-1)*L
   to p*L-1 of the newest-first ordering, so at most L of them, with pagination
   {page: p, limit: L, total: count, pages: ceil(count / L)} *)
C16_Pagination ==
    (/\ Responded
     /\ req.route = "GET /api/admin/users"
     /\ resp.status = 200
     /\ req.query.search = <<>>)
    =>
    LET p == IF req.query.page = <<>> THEN 1 ELSE ToNumber(req.query.page)
        L == IF req.query.limit = <<>> THEN 50 ELSE ToNumber(req.query.limit)
        ordered == NewestFirst(users)
        first == (p - 1) * L + 1
        last == IF p * L <= Len(ordered) THEN p * L ELSE Len(ordered)
    IN  (p >= 1 /\ L >= 1) =>
           /\ resp.users = SubSeq(ordered, first, last)
           /\ Len(resp.users) <= L
           /\ resp.pagination = <<[page |-> p, limit |-> L, total |-> Len(users),
                                   pages |-> (Len(users) + L - 1) \div L]>>

\* the ids of a table's rows
Ids(table) == {table[i].id : i \in DOMAIN table}

\* the header carries a valid token with is_admin or is_moderator
StaffToken(header) ==
    LET t == BearerToken(header)
    IN  /\ t # <<>>
        /\ ValidToken(t[1])
        /\ t[1].payload.is_admin \/ t[1].payload.is_moderator

\* what each route that writes would leave of the tables, were it asked now
WriteOutcomes ==
    {[route |-> "POST /api/auth/register", header |-> <<>>,
      db |-> register(Request("POST /api/auth/register", <<>>,
                 [displayName |-> <<"B">>, username |-> un, email |-> em,
                  password |-> goodPw], <<>>, <<>>)).db] :
        un \in Usernames, em \in Emails}
    \cup {[route |-> "POST /api/posts", header |-> h,
           db |-> createPost(Request("POST /api/posts", h,
                      [userId |-> 4, content |-> c], <<>>, <<>>)).db] :
        h \in Headers, c \in Contents}
    \cup {[route |-> "POST /api/posts/:id/like", header |-> h,
           db |-> like(Request("POST /api/posts/:id/like", h, <<>>,
                              [id |-> id], <<>>), "none").db] :
        h \in Headers, id \in {1, 9}}
    \cup {[route |-> "DELETE /api/posts/:id/like", header |-> h,
           db |-> unlike(Request("DELETE /api/posts/:id/like", h, <<>>,
                                [id |-> id], <<>>), "none").db] :
        h \in Headers, id \in {1, 9}}
    \cup {[route |-> "POST /api/users/:username/follow", header |-> h,
           db |-> follow(Request("POST /api/users/:username/follow", h, <<>>,
                                [username |-> un], <<>>), "none").db] :
        h \in Headers, un \in {bob, root}}
    \cup {[route |-> "DELETE /api/users/:username/follow", header |-> h,
           db |-> unfollow(Request("DELETE /api/users/:username/follow", h, <<>>,
                                  [username |-> un], <<>>), "none").db] :
        h \in Headers, un \in {bob, root}}
    \cup {[route |-> "POST /api/admin/users/:id/ban", header |-> h,
           db |-> ban(Request("POST /api/admin/users/:id/ban", h,
                             [reason |-> "spam", duration_hours |-> 24],
                             [id |-> id], <<>>), f).db] :
        h \in Headers, id \in {4, 9}, f \in Faults}
    \cup {[route |-> "POST /api/admin/users/:id/unban", header |-> h,
           db |-> unban(Request("POST /api/admin/users/:id/unban", h, <<>>,
                               [id |-> id], <<>>), f).db] :
        h \in Headers, id \in {4, 9}, f \in Faults}
    \cup {[route |-> "POST /api/moderation/reports/:id/resolve", header |-> h,
           db |-> resolve(Request("POST /api/moderation/reports/:id/resolve", h,
                                 [action |-> "delete", notes |-> <<"ok">>],
                                 [id |-> 1], <<>>), "none").db] :
        h \in Headers}
    \cup {[route |-> "DELETE /api/admin/posts/:id", header |-> h,
           db |-> deletePost(Request("DELETE /api/admin/posts/:id", h,
                                    [reason |-> "spam"], [id |-> id], <<>>), f).db] :
        h \in Headers, id \in {1, 9}, f \in Faults}

(* C17: no request removes a user row, and a post row goes only with a
   DELETE /api/admin/posts/:id request whose token is valid and has is_admin or
   is_moderator: this holds of the request answered last and of every route
   that writes, were it asked in the current state *)
C17_DeletionLifecycle ==
    /\ Responded =>
          /\ Ids(before.db.users) \subseteq Ids(users)
          /\ ~(Ids(before.db.posts) \subseteq Ids(posts)) =>
                /\ req.route = "DELETE /api/admin/posts/:id"
                /\ StaffToken(req.header)
    /\ pc = "idle" =>
          \A o \in WriteOutcomes :
             /\ Ids(users) \subseteq Ids(o.db.users)
             /\ ~(Ids(posts) \subseteq Ids(o.db.posts)) =>
                   /\ o.route = "DELETE /api/admin/posts/:id"
                   /\ StaffToken(o.header)

\* the post's owner, who has neither flag, asks for its deletion with a valid
\* token and the post stays
C17_Witness ==
    /\ Responded
    /\ req.route = "DELETE /api/admin/posts/:id"
    /\ req.params.id = 1
    /\ Presented # <<>>
    /\ ValidToken(Presented[1])
    /\ Presented[1].payload.id = 4
    /\ \E i \in DOMAIN posts : posts[i].id = 1 /\ posts[i].user_id = 4
    /\ resp.status = 403

(* C18: while the client stores a token, the request FeedManager.createPost
   sends to POST /api/posts carries 'Authorization: Bearer <stored token>', and
   that request is not stopped by authenticateToken *)
C18_ClientSendsBearer ==
    (/\ Responded
     /\ req.via = "FeedManager.createPost"
     /\ held # <<>>)
    =>
    /\ req.header = <<"Bearer", held[1]>>
    /\ resp.stage # "authenticateToken"

\* the rows of the users table with that username
RowsNamed(username) == SelectSeq(users, LAMBDA u : u.username = username)

(* C19: when two concurrent registrations with the same username have both had
   their pre-query answered before either inserted (both answers empty), both go on
   to the insert; without a unique constraint in the store both are answered 200
   and the users table holds two rows with that username, and with one exactly one
   of the inserts is refused by the store *)
C19_RegistrationRace ==
    (/\ \A p \in Procs : inflight[p].at = "done" /\ inflight[p].existingUser = <<>>
     /\ inflight[1].body.username = inflight[2].body.username)
    =>
    /\ ~uniqueConstraint =>
          /\ \A p \in Procs : inflight[p].resp.status = 200
          /\ Len(RowsNamed(inflight[1].body.username)) = 2
    /\ uniqueConstraint =>
          /\ \E p \in Procs : inflight[p].resp.status = 200
          /\ \E p \in Procs : inflight[p].resp.status = 500
          /\ Len(RowsNamed(inflight[1].body.username)) = 1

\* both handlers answered 200 for the username bob with different emails, and the
\* table holds two rows named bob
C19_Witness ==
    /\ \A p \in Procs : inflight[p].at = "done" /\ inflight[p].existingUser = <<>>
    /\ inflight[1].body.username = bob /\ inflight[2].body.username = bob
    /\ inflight[1].body.email # inflight[2].body.email
    /\ ~uniqueConstraint
    /\ \A p \in Procs : inflight[p].resp.status = 200
    /\ Len(RowsNamed(bob)) = 2

\* the columns of a report a resolve request may write
ResolutionColumns == {"status", "resolved_by", "resolved_at", "resolution_notes"}

(* C21: a resolve request, whatever its action, 'ban' and 'delete' included,
   changes at most the status, resolved_by, resolved_at and resolution_notes of the
   report with that id: users, posts, likes, follows, both audit tables and every
   other report stay as they were *)
C21_ResolveFrame ==
    (Responded /\ req.route = "POST /api/moderation/reports/:id/resolve")
    =>
    /\ [DB EXCEPT !.reports = before.db.reports] = before.db
    /\ Len(reports) = Len(before.db.reports)
    /\ \A i \in DOMAIN reports :
          /\ reports[i].id # req.params.id => reports[i] = before.db.reports[i]
          /\ \A c \in DOMAIN reports[i] \ ResolutionColumns :
                reports[i][c] = before.db.reports[i][c]
    /\ resp.status = 200 =>
          \A i \in DOMAIN reports :
             reports[i].id = req.params.id =>
                /\ reports[i].status = "resolved"
                /\ reports[i].resolved_by = <<req.user[1].id>>
                /\ reports[i].resolved_at = <<now>>

\* report 1 resolved with action 'ban' while report 2 stays pending and the
\* reported user is not banned
C21_Witness ==
    /\ Responded
    /\ req.route = "POST /api/moderation/reports/:id/resolve"
    /\ req.body.action = "ban"
    /\ req.params.id = 1
    /\ resp.status = 200
    /\ before.db.reports[1].status = "pending"
    /\ reports[1].status = "resolved"
    /\ reports[2].status = "pending"
    /\ \A i \in DOMAIN users : ~users[i].is_banned
    /\ posts # <<>>

(* C22: an unlike by a user for a post the user has no like row for leaves the
   likes table as it was and is answered 200 {liked: false}; an unlike with such a
   row removes exactly the rows whose user_id and post_id both match, and every
   other row stays, in its place *)
C22_UnlikeFrame ==
    (/\ Responded
     /\ req.route = "DELETE /api/posts/:id/like"
     /\ resp.stage = "handler")
    =>
    /\ [DB EXCEPT !.likes = before.db.likes] = before.db
    /\ req.fault = "none" => resp.status = 200 /\ resp.liked = <<FALSE>>
    /\ ~HasLiked(before.db.likes, req.user[1].id, req.params.id)
          => likes = before.db.likes
    /\ req.fault = "none" =>
          likes = SelectSeq(before.db.likes, LAMBDA l :
                      ~(l.user_id = req.user[1].id /\ l.post_id = req.params.id))

\* an unlike without a like row, answered {liked: false}, while the table holds a
\* row of the same user for another post and a row of another user for this post
C22_Witness ==
    /\ Responded
    /\ req.route = "DELETE /api/posts/:id/like"
    /\ req.fault = "none"
    /\ resp.status = 200
    /\ resp.liked = <<FALSE>>
    /\ ~HasLiked(before.db.likes, req.user[1].id, req.params.id)
    /\ \E i \in DOMAIN likes :
          likes[i].user_id = req.user[1].id /\ likes[i].post_id # req.params.id
    /\ \E i \in DOMAIN likes :
          likes[i].user_id # req.user[1].id /\ likes[i].post_id = req.params.id

\* the stored row of the user a token names
RowOf(t) == SelectSeq(users, LAMBDA u : u.id = t.payload.id)

(* C23: a request that presents a token the server issued, before the token's
   expiry, passes authenticateToken with the claims the token was signed over and
   meets the role gates with those claims, whether or not the user's row has since
   been banned or has other role flags *)
C23_TokenOutlivesRow ==
    (/\ Responded
     /\ Presented # <<>>
     /\ ValidToken(Presented[1]))
    =>
    LET c == Presented[1].payload
    IN  /\ resp.stage # "authenticateToken"
        /\ req.user = <<c>>
        /\ req.route = "DELETE /api/posts/:id/like" => resp.stage = "handler"
        /\ req.route = "GET /api/admin/analytics" =>
              (resp.status = 200 <=> c.is_admin)
        /\ req.route = "GET /api/moderation/reports" =>
              (resp.status = 200 <=> (c.is_admin \/ c.is_moderator))

\* half a lifetime after its issue, an admin's token passes requireAdmin although
\* the row is banned and no longer has a role flag
C23_Witness ==
    /\ Responded
    /\ req.route = "GET /api/admin/analytics"
    /\ Presented # <<>>
    /\ ValidToken(Presented[1])
    /\ now > Presented[1].payload.iat
    /\ Presented[1].payload.is_admin
    /\ resp.status = 200
    /\ RowOf(Presented[1]) # <<>>
    /\ RowOf(Presented[1])[1].is_banned
    /\ ~RowOf(Presented[1])[1].is_admin /\ ~RowOf(Presented[1])[1].is_moderator

\* whether the row was inserted by POST /api/auth/register
Registered(id) == id > Len(SeedUsers)

(* C25: every row the register route creates has is_admin and is_moderator false
   and keeps them false; no route, were it asked now, changes either flag of any
   row; the tokens issued for registered accounts carry both flags false, and no
   header a client can present is let through requireAdmin or requireModerator
   as a registered account *)
C25_NoEscalation ==
    /\ \A i \in DOMAIN users :
          Registered(users[i].id) => ~users[i].is_admin /\ ~users[i].is_moderator
    /\ Responded =>
          /\ \A i \in DOMAIN before.db.users :
                /\ users[i].is_admin = before.db.users[i].is_admin
                /\ users[i].is_moderator = before.db.users[i].is_moderator
          /\ \A i \in DOMAIN resp.token :
                Registered(resp.token[i].payload.id) =>
                   ~resp.token[i].payload.is_admin /\ ~resp.token[i].payload.is_moderator
    /\ pc = "idle" =>
          \A o \in WriteOutcomes : \A i \in DOMAIN o.db.users :
             IF i \in DOMAIN users
             THEN /\ o.db.users[i].is_admin = users[i].is_admin
                  /\ o.db.users[i].is_moderator = users[i].is_moderator
             ELSE ~o.db.users[i].is_admin /\ ~o.db.users[i].is_moderator
    /\ \A h \in Headers :
          LET auth == authenticateToken(h)
          IN  (auth.next /\ Registered(auth.user[1].id)) =>
                 /\ ~requireAdmin(auth.user).next
                 /\ ~requireModerator(auth.user).next

\* a registered account holds a valid token, and both gates refuse it
C25_Witness ==
    /\ pc = "idle"
    /\ held # <<>>
    /\ ValidToken(held[1])
    /\ Registered(held[1].payload.id)
    /\ \E i \in DOMAIN users : users[i].id = held[1].payload.id
    /\ ~requireAdmin(<<held[1].payload>>).next
    /\ ~requireModerator(<<held[1].payload>>).next
    /\ requireAdmin(<<TokenClaims(users[1])>>).next

(* C26: after a registration with a username and an email has succeeded, a login
   with that same username string or that same email string and the registered
   password succeeds and returns the id of the row the registration created *)
C26_RegisterLoginRoundTrip ==
    (/\ Responded
     /\ req.route = "POST /api/auth/login"
     /\ req.body.password = goodPw
     /\ \E e \in before.regLog : req.body.identifier \in {e.username, e.email})
    =>
    /\ resp.status = 200
    /\ \E e \in before.regLog, i \in DOMAIN users :
          /\ req.body.identifier \in {e.username, e.email}
          /\ users[i].username = toLowerCase(e.username)
          /\ users[i].email = toLowerCase(e.email)
          /\ resp.user[1].id = users[i].id

(* C24: after every sequence of logins (setCurrentUser), profile saves, logouts
   and page loads, the AuthSystem object agrees with the storage: its currentUser
   is the stored social_currentUser, its token is the stored social_token, and
   getAuthHeaders carries Authorization exactly when a token is stored *)
C24_AuthStateMatchesStorage ==
    /\ authSystem.currentUser = getCurrentUser
    /\ authSystem.token = getToken
    /\ getAuthHeaders # <<>> <=> getToken # Null

(* C27: at most one loadInitialPosts is suspended at its fetch, and one is exactly
   while isLoading is set; a call made while isLoading is set starts no fetch and
   leaves posts and isLoading as they were; and every load that has started,
   whether its fetch is answered 200, answered otherwise or fails, sets isLoading
   back to false *)
C27_LoadExclusive ==
    /\ [](/\ Len(Suspended("loadInitialPosts")) <= 1
          /\ feedManager.isLoading <=> Suspended("loadInitialPosts") # <<>>)
    /\ [][(prior'.calls > prior.calls /\ feedManager.isLoading) =>
             /\ awaiting' = awaiting
             /\ feedManager'.posts = feedManager.posts
             /\ feedManager'.isLoading]_vars
    /\ (feedManager.isLoading ~> ~feedManager.isLoading)

\* a call that returned at the guard while the first load waits for its answer
C27_Witness ==
    /\ prior.skipped
    /\ prior.calls = 2
    /\ feedManager.isLoading
    /\ Len(awaiting) = 1
    /\ awaiting[1].fn = "loadInitialPosts"
    /\ awaiting[1].at = "fetch"

\* how often the post with that id occurs in feedManager.posts
Occurrences(id) == Len(SelectSeq(feedManager.posts, LAMBDA post : post.id = id))

(* C28: whenever no call of createPost or loadInitialPosts is suspended any more,
   every post the server acknowledged to createPost occurs in feedManager.posts
   exactly once *)
C28_AcknowledgedOnce ==
    awaiting = <<>> => \A id \in prior.acknowledged : Occurrences(id) = 1

\* the createPost calls suspended between their fetch and its answer's handling
PostsInFlight == Len(Suspended("createPost"))

(* C29: one Ctrl/Cmd+Enter keypress in postInput, with FeedManager's and App's
   listeners both registered, or one click on the post button, issues at most one
   POST /api/posts, and no createPost starts while another is suspended *)
C29_OnePostPerGesture ==
    /\ prior.issued <= 1
    /\ PostsInFlight <= 1
    /\ ~prior.overlapped

(* C30: from whichever of the five pages is opened, with or without a stored
   user, the guards redirect at most once; when they have settled, the page shown
   is login.html if index.html, profile.html or dms.html was opened without a
   stored user, index.html if login.html or signup.html was opened with one, and
   the page that was opened otherwise *)
C30_NoRedirectLoop ==
    /\ location.hops <= 1
    /\ (location.ready /\ location.opened \in Pages) =>
          location.pathname =
             IF getCurrentUser = Null
                /\ location.opened \in {"index.html", "profile.html", "dms.html"}
             THEN "login.html"
             ELSE IF getCurrentUser # Null
                     /\ location.opened \in {"login.html", "signup.html"}
             THEN "index.html"
             ELSE location.opened

\* the feed page was opened without a stored user and the guards have settled on
\* login.html after one redirect
C30_Witness ==
    /\ location.ready
    /\ location.opened = "index.html"
    /\ location.pathname = "login.html"
    /\ location.hops = 1
    /\ getCurrentUser = Null

====
